---------------------------- MODULE Spec2Model ----------------------------
(***************************************************************************)
(* Model of the fusion-and-verification core of surgical-tutor-rag:        *)
(*   - GraphVerifier / SurgicalHallucinationTaxonomy / AbstentionPolicy /  *)
(*     VerificationPipeline           (specification Spec)                 *)
(*   - SurgicalHallucinationTaxonomy._calculate_safety_score               *)
(*                                    (specification SafetySpec)           *)
(*   - GraphEnhancedRetriever.retrieve (specification RetrieveSpec)        *)
(*   - MultiStepRetriever._deduplicate_and_merge                           *)
(*                                    (specification MergeSpec)            *)
(* Text is modelled by TLA+ strings; Python's str methods are modelled by  *)
(* the operators of the first section.  Floating point values are modelled *)
(* by exact rationals [n |-> numerator, d |-> denominator].                *)
(***************************************************************************)
EXTENDS Integers, Sequences, FiniteSets, TLC

(***************************************************************************)
(* Python str helpers                                                      *)
(***************************************************************************)
UPPERCASE == "ABCDEFGHIJKLMNOPQRSTUVWXYZ"
LOWERCASE == "abcdefghijklmnopqrstuvwxyz"
DIGITS == "0123456789"

Min(a, b) == IF a <= b THEN a ELSE b
Max(a, b) == IF a >= b THEN a ELSE b

\* the character of s at position i, as a one-character string
CharAt(s, i) == SubSeq(s, i, i)

\* str.lower() restricted to single characters, as a table
ToLowerMap ==
  [c \in {CharAt(UPPERCASE, i) : i \in 1..26} |->
     CharAt(LOWERCASE, CHOOSE i \in 1..26 : CharAt(UPPERCASE, i) = c)]

\* str.upper() restricted to single characters, as a table
ToUpperMap ==
  [c \in {CharAt(LOWERCASE, i) : i \in 1..26} |->
     CharAt(UPPERCASE, CHOOSE i \in 1..26 : CharAt(LOWERCASE, i) = c)]

RECURSIVE Lower(_)
\* str.lower(): character by character (the string is split in halves)
Lower(s) ==
  IF Len(s) = 0 THEN ""
  ELSE IF Len(s) = 1 THEN (IF s \in DOMAIN ToLowerMap THEN ToLowerMap[s] ELSE s)
  ELSE LET h == Len(s) \div 2
       IN  Lower(SubSeq(s, 1, h)) \o Lower(SubSeq(s, h + 1, Len(s)))

RECURSIVE Upper(_)
\* str.upper(): character by character (the string is split in halves)
Upper(s) ==
  IF Len(s) = 0 THEN ""
  ELSE IF Len(s) = 1 THEN (IF s \in DOMAIN ToUpperMap THEN ToUpperMap[s] ELSE s)
  ELSE LET h == Len(s) \div 2
       IN  Upper(SubSeq(s, 1, h)) \o Upper(SubSeq(s, h + 1, Len(s)))

\* Python `t in s` (substring test); the empty string is in every string
Contains(s, t) ==
  \/ Len(t) = 0
  \/ \E i \in 1..(Len(s) - Len(t) + 1) : SubSeq(s, i, i + Len(t) - 1) = t

\* Python s[:n]
Prefix(s, n) == SubSeq(s, 1, Min(n, Len(s)))

IsSpace(c) == c \in {" ", "\n", "\t", "\r"}

RECURSIVE LStrip(_)
LStrip(s) == IF Len(s) > 0 /\ IsSpace(CharAt(s, 1))
             THEN LStrip(SubSeq(s, 2, Len(s))) ELSE s

RECURSIVE RStrip(_)
RStrip(s) == IF Len(s) > 0 /\ IsSpace(CharAt(s, Len(s)))
             THEN RStrip(SubSeq(s, 1, Len(s) - 1)) ELSE s

\* str.strip()
Strip(s) == RStrip(LStrip(s))

RECURSIVE IntToStr(_)
\* str(n) / f"{n}" for a natural number
IntToStr(n) == IF n < 10 THEN CharAt(DIGITS, n + 1)
               ELSE IntToStr(n \div 10) \o CharAt(DIGITS, (n % 10) + 1)

\* dict.get(k, default) on a record
Get(d, k, default) == IF k \in DOMAIN d THEN d[k] ELSE default

(***************************************************************************)
(* Exact rationals standing for Python floats                              *)
(***************************************************************************)
RECURSIVE GCD(_, _)
GCD(a, b) == IF b = 0 THEN a ELSE GCD(b, a % b)

\* the rational n/d (d > 0) in lowest terms
Rat(n, d) ==
  LET g == Max(1, GCD(IF n < 0 THEN -n ELSE n, d))
  IN  [n |-> n \div g, d |-> d \div g]

RatLt(a, b) == a.n * b.d < b.n * a.d
RatLe(a, b) == a.n * b.d <= b.n * a.d
RatEq(a, b) == a.n * b.d = b.n * a.d
RatAdd(a, b) == Rat(a.n * b.d + b.n * a.d, a.d * b.d)
RatSub(a, b) == Rat(a.n * b.d - b.n * a.d, a.d * b.d)
RatMul(a, b) == Rat(a.n * b.n, a.d * b.d)
RatMax(a, b) == IF RatLt(a, b) THEN b ELSE a
Zero == Rat(0, 1)
One == Rat(1, 1)

\* round(n/d) to the nearest integer, ties to even (n >= 0, d > 0): the
\* rounding of Python's format specs .0% and .0f
RoundHalfEven(n, d) ==
  LET q == n \div d
      r == n % d
  IN  IF 2 * r < d THEN q
      ELSE IF 2 * r > d THEN q + 1
      ELSE IF q % 2 = 0 THEN q ELSE q + 1

\* f"{x:.0%}" for a rational x >= 0
FormatPercent(x) == IntToStr(RoundHalfEven(100 * x.n, x.d)) \o "%"

\* f"{x:.2f}" for a rational x >= 0
FormatFixed2(x) ==
  LET h == RoundHalfEven(100 * x.n, x.d)
  IN  IntToStr(h \div 100) \o "." \o IntToStr((h % 100) \div 10) \o IntToStr(h % 10)

(***************************************************************************)
(* The knowledge graph (Neo4j), read-only for this core.  A graph is a     *)
(* record of node-name sets and typed edge sets.                           *)
(***************************************************************************)
\* a small cholecystectomy graph
PopulatedGraph ==
  [ steps |-> {"Dissection of Calot triangle", "Clipping of cystic duct", "Skin incision"},
    instruments |-> {"Grasper", "Scalpel"},
    uses |-> { <<"Dissection of Calot triangle", "Grasper">>,
               <<"Skin incision", "Scalpel">> },
    order |-> { <<"Skin incision", "PRECEDES", "Dissection of Calot triangle">>,
                <<"Dissection of Calot triangle", "PRECEDES", "Clipping of cystic duct">> },
    anatomy |-> {"Cystic duct", "Liver"},
    anatomy_rel |-> { <<"Laparoscopic cholecystectomy", "INVOLVES", "Cystic duct">> },
    complications |-> {"Bleeding"} ]

\* a graph into which nothing has been ingested yet
EmptyGraph ==
  [ steps |-> {}, instruments |-> {}, uses |-> {}, order |-> {},
    anatomy |-> {}, anatomy_rel |-> {}, complications |-> {} ]

\* what the graph driver does during one verify_claims call: the kinds of
\* Cypher query that raise, and the text of the exception
FailureModes ==
  { [fails |-> {}, msg |-> ""],
    [fails |-> {"uses", "entities_exist", "step_order", "anatomy_rel", "node_exists",
                "complication"},
     msg |-> "connection refused"],
    [fails |-> {"entities_exist", "node_exists"}, msg |-> "connection refused"],
    [fails |-> {"uses", "anatomy_rel"}, msg |-> "database not found"] }

\* Cypher: toLower(node.name) CONTAINS toLower($param)
NameMatches(name, param) == Contains(Lower(name), Lower(param))

\* MATCH (s:Step)-[:USES]->(i:Instrument) WHERE ... RETURN count(*)
CountUses(g, step, instrument) ==
  Cardinality({e \in g.uses : NameMatches(e[1], step) /\ NameMatches(e[2], instrument)})

\* MATCH (s:Step), (i:Instrument) WHERE ... RETURN count(*)
CountEntitiesExist(g, step, instrument) ==
  Cardinality({p \in g.steps \X g.instruments :
                 NameMatches(p[1], step) /\ NameMatches(p[2], instrument)})

\* MATCH (s1:Step)-[r:PRECEDES|FOLLOWS|REQUIRES]->(s2:Step) WHERE ... AND type(r) = $rel_type
CountStepOrder(g, step1, step2, rel_type) ==
  Cardinality({e \in g.order :
                 /\ e[2] \in {"PRECEDES", "FOLLOWS", "REQUIRES"}
                 /\ NameMatches(e[1], step1)
                 /\ NameMatches(e[3], step2)
                 /\ e[2] = rel_type})

\* MATCH (p:Procedure)-[r:INVOLVES|TARGETS|AVOIDS|IDENTIFIES]->(a:Anatomy) WHERE ...
CountAnatomyRel(g, structure) ==
  Cardinality({e \in g.anatomy_rel :
                 /\ e[2] \in {"INVOLVES", "TARGETS", "AVOIDS", "IDENTIFIES"}
                 /\ NameMatches(e[3], structure)})

\* MATCH (n:Anatomy) WHERE toLower(n.name) CONTAINS toLower($name)
CountAnatomyNodes(g, name) ==
  Cardinality({a \in g.anatomy : NameMatches(a, name)})

\* MATCH (c:Complication) WHERE toLower(c.name) CONTAINS toLower($complication)
CountComplications(g, complication) ==
  Cardinality({c \in g.complications : NameMatches(c, complication)})

(***************************************************************************)
(* GraphVerifier (graph_verifier.py).  g is the graph, f the failure mode  *)
(* of the driver during the call.                                          *)
(***************************************************************************)
\* _verify_entities_exist: exceptions are swallowed and read as "no"
verify_entities_exist(g, f, step_name, instrument_name) ==
  IF "entities_exist" \in f.fails THEN FALSE
  ELSE CountEntitiesExist(g, Lower(step_name), Lower(instrument_name)) > 0

\* _check_node_exists('Anatomy', name): exceptions are swallowed and read as "no"
check_node_exists(g, f, name) ==
  IF "node_exists" \in f.fails THEN FALSE
  ELSE CountAnatomyNodes(g, Lower(name)) > 0

\* mutant of Unverified: the claim is counted as unverified without a detail
Unverified_Silent(type, claim, reason) == [ok |-> FALSE, details |-> <<>>]

Verified == [ok |-> TRUE, details |-> <<>>]
Unverified(type, claim, reason) ==
  [ok |-> FALSE, details |-> << [type |-> type, claim |-> claim, reason |-> reason] >>]

\* the body of the loop of _verify_instrument_claims
VerifyInstrumentClaim(g, f, claim) ==
  LET step_name == Get(claim, "step", "")
      instrument_name == Get(claim, "instrument", "")
  IN  IF step_name = "" \/ instrument_name = ""
      THEN Unverified("instrument", claim, "Missing step or instrument name")
      ELSE IF "uses" \in f.fails
      THEN Unverified("instrument", claim, "Query error: " \o f.msg)
      ELSE IF CountUses(g, Lower(step_name), Lower(instrument_name)) > 0
      THEN Verified
      ELSE IF verify_entities_exist(g, f, step_name, instrument_name)
      THEN Verified
      ELSE Unverified("instrument", claim, "No graph relationship found")

\* mutant of VerifyStepOrderClaim: the pattern is matched in either direction
VerifyStepOrderClaim_EitherDirection(g, f, claim) ==
  LET step_before == Get(claim, "step_before", "")
      step_after == Get(claim, "step_after", "")
      relationship == Get(claim, "relationship", "PRECEDES")
  IN  IF step_before = "" \/ step_after = ""
      THEN Unverified("step_order", claim, "Missing step names")
      ELSE IF "step_order" \in f.fails
      THEN Unverified("step_order", claim, "Query error: " \o f.msg)
      ELSE IF \/ CountStepOrder(g, Lower(step_before), Lower(step_after), Upper(relationship)) > 0
              \/ CountStepOrder(g, Lower(step_after), Lower(step_before), Upper(relationship)) > 0
      THEN Verified
      ELSE Unverified("step_order", claim, "Step ordering not found in graph")

\* the body of the loop of _verify_step_order_claims
VerifyStepOrderClaim(g, f, claim) ==
  LET step_before == Get(claim, "step_before", "")
      step_after == Get(claim, "step_after", "")
      relationship == Get(claim, "relationship", "PRECEDES")
  IN  IF step_before = "" \/ step_after = ""
      THEN Unverified("step_order", claim, "Missing step names")
      ELSE IF "step_order" \in f.fails
      THEN Unverified("step_order", claim, "Query error: " \o f.msg)
      ELSE IF CountStepOrder(g, Lower(step_before), Lower(step_after), Upper(relationship)) > 0
      THEN Verified
      ELSE Unverified("step_order", claim, "Step ordering not found in graph")

\* mutant of VerifyAnatomyClaim: no credit for a structure that is in the
\* graph without a relation
VerifyAnatomyClaim_RelationOnly(g, f, claim) ==
  LET structure == Get(claim, "anatomical_structure", "")
  IN  IF structure = ""
      THEN Unverified("anatomy", claim, "Missing anatomical structure")
      ELSE IF "anatomy_rel" \in f.fails
      THEN Unverified("anatomy", claim, "Query error: " \o f.msg)
      ELSE IF CountAnatomyRel(g, Lower(structure)) > 0
      THEN Verified
      ELSE Unverified("anatomy", claim, "Anatomical structure not found in graph")

\* the body of the loop of _verify_anatomy_claims
VerifyAnatomyClaim(g, f, claim) ==
  LET structure == Get(claim, "anatomical_structure", "")
  IN  IF structure = ""
      THEN Unverified("anatomy", claim, "Missing anatomical structure")
      ELSE IF "anatomy_rel" \in f.fails
      THEN Unverified("anatomy", claim, "Query error: " \o f.msg)
      ELSE IF CountAnatomyRel(g, Lower(structure)) > 0
      THEN Verified
      ELSE IF check_node_exists(g, f, structure)
      THEN Verified
      ELSE Unverified("anatomy", claim, "Anatomical structure not found in graph")

\* the body of the loop of _verify_complication_claims
VerifyComplicationClaim(g, f, claim) ==
  LET complication == Get(claim, "complication", "")
  IN  IF complication = ""
      THEN Unverified("complication", claim, "Missing complication name")
      ELSE IF "complication" \in f.fails
      THEN Unverified("complication", claim, "Query error: " \o f.msg)
      ELSE IF CountComplications(g, Lower(complication)) > 0
      THEN Verified
      ELSE Unverified("complication", claim, "Complication not found in graph")

\* one claim of the category named by type
VerifyOne(g, f, type, claim) ==
  CASE type = "instrument" -> VerifyInstrumentClaim(g, f, claim)
    [] type = "step_order" -> VerifyStepOrderClaim(g, f, claim)
    [] type = "anatomy" -> VerifyAnatomyClaim(g, f, claim)
    [] type = "complication" -> VerifyComplicationClaim(g, f, claim)

RECURSIVE CountVerified(_, _, _, _)
\* the `verified` counter after the loop over claims
CountVerified(g, f, type, claims) ==
  IF claims = <<>> THEN 0
  ELSE (IF VerifyOne(g, f, type, Head(claims)).ok THEN 1 ELSE 0)
       + CountVerified(g, f, type, Tail(claims))

RECURSIVE CollectUnverified(_, _, _, _)
\* the `unverified_details` list after the loop over claims
CollectUnverified(g, f, type, claims) ==
  IF claims = <<>> THEN <<>>
  ELSE VerifyOne(g, f, type, Head(claims)).details
       \o CollectUnverified(g, f, type, Tail(claims))

\* the dict _verify_<category>_claims returns
CategoryResults(total, verified, unverified_details) ==
  [ total |-> total,
    verified |-> verified,
    unverified |-> total - verified,
    score |-> IF total > 0 THEN Rat(verified, total) ELSE One,
    unverified_details |-> unverified_details ]

\* the result of _verify_<category>_claims
VerifyCategory(g, f, type, claims) ==
  CategoryResults(Len(claims), CountVerified(g, f, type, claims),
                  CollectUnverified(g, f, type, claims))

\* mutant of OverallScore: the score keeps its initial 0.0 when there are no claims
OverallScore_ZeroWhenEmpty(verified_claims, total_claims) ==
  IF total_claims > 0 THEN Rat(verified_claims, total_claims) ELSE Zero

\* the overall score of verify_claims
OverallScore(verified_claims, total_claims) ==
  IF total_claims > 0 THEN Rat(verified_claims, total_claims) ELSE One

\* the totals verify_claims accumulates over the four category results
OverallResults(instrument_results, step_order_results, anatomy_results, complication_results) ==
  LET total_claims == instrument_results.total + step_order_results.total
                      + anatomy_results.total + complication_results.total
      verified_claims == instrument_results.verified + step_order_results.verified
                         + anatomy_results.verified + complication_results.verified
      unverified_claims == instrument_results.unverified + step_order_results.unverified
                           + anatomy_results.unverified + complication_results.unverified
  IN  [ verification_score |-> OverallScore(verified_claims, total_claims),
        total_claims |-> total_claims,
        verified_claims |-> verified_claims,
        unverified_claims |-> unverified_claims,
        category_scores |-> [ instruments |-> instrument_results.score,
                              step_order |-> step_order_results.score,
                              anatomy |-> anatomy_results.score,
                              complications |-> complication_results.score ],
        unverified_details |-> instrument_results.unverified_details
                               \o step_order_results.unverified_details
                               \o anatomy_results.unverified_details
                               \o complication_results.unverified_details ]

\* GraphVerifier.verify_claims
verify_claims(g, f, claims) ==
  OverallResults(
    VerifyCategory(g, f, "instrument", Get(claims, "instrument_claims", <<>>)),
    VerifyCategory(g, f, "step_order", Get(claims, "step_order_claims", <<>>)),
    VerifyCategory(g, f, "anatomy", Get(claims, "anatomy_claims", <<>>)),
    VerifyCategory(g, f, "complication", Get(claims, "complication_claims", <<>>)))

\* GraphVerifier.get_verification_confidence_level
get_verification_confidence_level(verification_score) ==
  IF RatLe(Rat(80, 100), verification_score) THEN "high"
  ELSE IF RatLe(Rat(50, 100), verification_score) THEN "medium"
  ELSE "low"

(***************************************************************************)
(* SurgicalHallucinationTaxonomy (surgical_hallucination_taxonomy.py)      *)
(***************************************************************************)
\* _build_taxonomy: the entries _map_claim_to_hallucination can select, and
\* the others, by HallucinationType value
Taxonomy ==
  [ anatomical_structure_error |->
      [category |-> "anatomical", severity |-> "critical",
       description |-> "Incorrect anatomical structure mentioned"],
    anatomical_location_error |->
      [category |-> "anatomical", severity |-> "critical",
       description |-> "Wrong anatomical location specified"],
    instrument_incorrect |->
      [category |-> "instrument", severity |-> "high",
       description |-> "Wrong instrument specified for surgical step"],
    instrument_nonexistent |->
      [category |-> "instrument", severity |-> "critical",
       description |-> "Fabricated or nonexistent surgical instrument"],
    step_order_error |->
      [category |-> "procedural", severity |-> "critical",
       description |-> "Incorrect ordering of surgical steps"],
    step_fabrication |->
      [category |-> "procedural", severity |-> "high",
       description |-> "Invented surgical step not in procedure"],
    complication_exaggerated |->
      [category |-> "complication", severity |-> "medium",
       description |-> "Overstated complication risk/severity"],
    management_error |->
      [category |-> "complication", severity |-> "critical",
       description |-> "Incorrect complication management advice"],
    dosage_error |->
      [category |-> "quantitative", severity |-> "critical",
       description |-> "Incorrect medication dosage"],
    statistic_error |->
      [category |-> "quantitative", severity |-> "medium",
       description |-> "Fabricated or incorrect statistics"],
    no_citation |->
      [category |-> "attribution", severity |-> "low",
       description |-> "Factual claim without citation"],
    false_citation |->
      [category |-> "attribution", severity |-> "high",
       description |-> "Citation does not support claim"] ]

Severities == {"critical", "high", "medium", "low"}

\* _map_claim_to_hallucination
map_claim_to_hallucination(claim_type, reason) ==
  IF claim_type = "instrument"
  THEN (IF Contains(Lower(reason), "not found")
        THEN "instrument_nonexistent" ELSE "instrument_incorrect")
  ELSE IF claim_type = "step_order" THEN "step_order_error"
  ELSE IF claim_type = "anatomy"
  THEN (IF Contains(Lower(reason), "location")
        THEN "anatomical_location_error" ELSE "anatomical_structure_error")
  ELSE IF claim_type = "complication" THEN "management_error"
  ELSE "no_citation"

\* _calculate_classification_confidence
calculate_classification_confidence(claim_type, reason) ==
  IF Contains(Lower(reason), "not found") \/ Contains(Lower(reason), "no graph relationship")
  THEN Rat(95, 100)
  ELSE IF Contains(Lower(reason), "missing") THEN Rat(7, 10)
  ELSE Rat(5, 10)

\* the dict classify_hallucination returns for a hallucination type
Classification(unverified_claim, hallucination_type, confidence) ==
  LET taxonomy_entry == Get(Taxonomy, hallucination_type, [x \in {} |-> ""])
  IN  [ hallucination_type |-> hallucination_type,
        category |-> Get(taxonomy_entry, "category", "unknown"),
        severity |-> Get(taxonomy_entry, "severity", "unknown"),
        description |-> Get(taxonomy_entry, "description", ""),
        unverified_claim |-> unverified_claim,
        confidence |-> confidence ]

\* classify_hallucination
classify_hallucination(unverified_claim) ==
  Classification(
    unverified_claim,
    map_claim_to_hallucination(Get(unverified_claim, "type", "unknown"),
                               Get(unverified_claim, "reason", "")),
    calculate_classification_confidence(Get(unverified_claim, "type", "unknown"),
                                        Get(unverified_claim, "reason", "")))

\* the number of classifications whose field has the value
CountBy(classifications, field, value) ==
  Cardinality({i \in DOMAIN classifications : classifications[i][field] = value})

\* mutant of calculate_safety_score: the penalty is neither divided by the
\* total nor clamped
calculate_safety_score_RawPenalty(severity_counts, total) ==
  IF total = 0 THEN One
  ELSE RatSub(One, RatAdd(RatAdd(Rat(severity_counts["critical"], 1),
                                 Rat(severity_counts["high"] * 5, 10)),
                          RatAdd(Rat(severity_counts["medium"] * 2, 10),
                                 Rat(severity_counts["low"] * 1, 10))))

\* mutant of calculate_safety_score: critical weighs what high weighs
calculate_safety_score_CriticalAsHigh(severity_counts, total) ==
  IF total = 0 THEN One
  ELSE RatMax(Zero, RatSub(One,
         Rat(severity_counts["critical"] * 5 + severity_counts["high"] * 5
             + severity_counts["medium"] * 2 + severity_counts["low"] * 1, 10 * total)))

\* _calculate_safety_score; severity_counts maps each severity to a count
calculate_safety_score(severity_counts, total) ==
  IF total = 0 THEN One
  ELSE LET penalty == RatAdd(RatAdd(Rat(severity_counts["critical"], 1),
                                    Rat(severity_counts["high"] * 5, 10)),
                             RatAdd(Rat(severity_counts["medium"] * 2, 10),
                                    Rat(severity_counts["low"] * 1, 10)))
           max_penalty == Rat(total, 1)
       IN  RatMax(Zero, RatSub(One, Rat(penalty.n * max_penalty.d, penalty.d * max_penalty.n)))

\* _generate_recommendations (the leading warning glyph of the first line is left out)
generate_recommendations(category_counts, severity_counts) ==
  (IF severity_counts["critical"] > 0
   THEN << "CRITICAL: Manual review required before clinical use" >> ELSE <<>>)
  \o (IF Get(category_counts, "anatomical", 0) > 0
      THEN << "Enhance anatomy knowledge graph with more detailed relationships" >> ELSE <<>>)
  \o (IF Get(category_counts, "instrument", 0) > 0
      THEN << "Expand instrument-procedure mappings in knowledge graph" >> ELSE <<>>)
  \o (IF Get(category_counts, "procedural", 0) > 0
      THEN << "Add explicit step ordering constraints to graph" >> ELSE <<>>)
  \o (IF Get(category_counts, "complication", 0) > 0
      THEN << "Include comprehensive complication data in knowledge base" >> ELSE <<>>)
  \o (IF Get(category_counts, "quantitative", 0) > 0
      THEN << "Verify all numeric claims against original literature" >> ELSE <<>>)

\* the report generate_error_report builds from the classifications
ErrorReport(classifications) ==
  LET categories == {classifications[i].category : i \in DOMAIN classifications}
      category_counts == [c \in categories |-> CountBy(classifications, "category", c)]
      severity_counts == [s \in Severities \cup {classifications[i].severity : i \in DOMAIN classifications}
                            |-> CountBy(classifications, "severity", s)]
  IN  [ total_hallucinations |-> Len(classifications),
        classifications |-> classifications,
        category_distribution |-> category_counts,
        severity_distribution |-> severity_counts,
        critical_count |-> severity_counts["critical"],
        recommendations |-> generate_recommendations(category_counts, severity_counts),
        safety_score |-> calculate_safety_score(severity_counts, Len(classifications)) ]

\* the classifications of the unverified details, in order
ClassifyAll(unverified_details) ==
  [i \in DOMAIN unverified_details |-> classify_hallucination(unverified_details[i])]

\* generate_error_report
generate_error_report(verification_results) ==
  ErrorReport(ClassifyAll(Get(verification_results, "unverified_details", <<>>)))

(***************************************************************************)
(* AbstentionPolicy and UncertaintyQuantifier (abstention_policy.py)       *)
(***************************************************************************)
\* the order of the keys of a claim record of each category, as the
\* extraction prompt lays them out (Python dicts keep insertion order)
KeyOrder ==
  [ instrument |-> <<"step", "instrument", "usage">>,
    step_order |-> <<"procedure", "step_before", "step_after", "relationship">>,
    anatomy |-> <<"procedure", "anatomical_structure", "relationship">>,
    complication |-> <<"procedure", "complication", "management">> ]

RECURSIVE ReprItems(_, _)
\* the items of str(dict), for the keys in order
ReprItems(claim, keys) ==
  IF keys = <<>> THEN ""
  ELSE "'" \o Head(keys) \o "': '" \o claim[Head(keys)] \o "'"
       \o (IF Len(keys) > 1 THEN ", " ELSE "")
       \o ReprItems(claim, Tail(keys))

\* str(claim) of a dict of strings
Repr(claim, keys) == "{" \o ReprItems(claim, SelectSeq(keys, LAMBDA k : k \in DOMAIN claim)) \o "}"

\* str(detail.get('claim', ''))
ClaimRepr(detail) ==
  IF "claim" \in DOMAIN detail
  THEN Repr(detail.claim, Get(KeyOrder, Get(detail, "type", ""), <<>>))
  ELSE ""

critical_keywords == {"dosage", "contraindication", "complication management", "anatomy"}

\* the test of the loop of _count_critical_errors
IsCriticalError(detail) ==
  \E keyword \in critical_keywords : Contains(Lower(ClaimRepr(detail)), keyword)

\* _count_critical_errors
count_critical_errors(unverified_details) ==
  Cardinality({i \in DOMAIN unverified_details : IsCriticalError(unverified_details[i])})

\* mutant of BelowThreshold: the comparison includes the threshold
BelowThreshold_Inclusive(verification_score, abstention_threshold) ==
  RatLe(verification_score, abstention_threshold)

\* `verification_score < self.abstention_threshold`
BelowThreshold(verification_score, abstention_threshold) ==
  RatLt(verification_score, abstention_threshold)

\* should_abstain without its case for zero claims
should_abstain_WithoutEmptyCase(enable_abstention, abstention_threshold, verification_results) ==
  LET verification_score == Get(verification_results, "verification_score", Zero)
      critical_errors ==
        count_critical_errors(Get(verification_results, "unverified_details", <<>>))
  IN  IF ~enable_abstention THEN <<FALSE, "">>
      ELSE IF BelowThreshold(verification_score, abstention_threshold)
      THEN <<TRUE, "Insufficient verification confidence">>
      ELSE IF critical_errors > 0
      THEN <<TRUE, "Detected critical error(s) in answer. Cannot provide safe response.">>
      ELSE <<FALSE, "">>

\* AbstentionPolicy.should_abstain: <<should_abstain, reason>>
should_abstain(enable_abstention, abstention_threshold, verification_results) ==
  LET verification_score == Get(verification_results, "verification_score", Zero)
      total_claims == Get(verification_results, "total_claims", 0)
      unverified_details == Get(verification_results, "unverified_details", <<>>)
      critical_errors == count_critical_errors(unverified_details)
  IN  IF ~enable_abstention THEN <<FALSE, "">>
      ELSE IF total_claims = 0
      THEN <<TRUE, "Unable to extract verifiable claims from answer. Question may be too vague or outside knowledge base.">>
      ELSE IF BelowThreshold(verification_score, abstention_threshold)
      THEN <<TRUE, "Insufficient verification confidence (" \o FormatPercent(verification_score)
                   \o "). Only " \o IntToStr(Get(verification_results, "verified_claims", 0))
                   \o "/" \o IntToStr(total_claims) \o " claims verified in knowledge graph.">>
      ELSE IF critical_errors > 0
      THEN <<TRUE, "Detected " \o IntToStr(critical_errors)
                   \o " critical error(s) in answer. Cannot provide safe response.">>
      ELSE <<FALSE, "">>

\* UncertaintyQuantifier.calculate_overall_uncertainty with no retrieval
\* scores and no generation metadata, as verify_answer calls it.  The
\* 'interpretation' label is left out of the record.
calculate_overall_uncertainty(verification_results) ==
  LET verification_certainty == Get(verification_results, "verification_score", Zero)
      retrieval_certainty == Rat(5, 10)
      generation_certainty == Rat(5, 10)
      overall_certainty ==
        RatAdd(RatMul(verification_certainty, Rat(6, 10)),
               RatAdd(RatMul(retrieval_certainty, Rat(3, 10)),
                      RatMul(generation_certainty, Rat(1, 10))))
  IN  [ overall_certainty |-> overall_certainty,
        overall_uncertainty |-> RatSub(One, overall_certainty),
        components |-> [ verification_certainty |-> verification_certainty,
                         retrieval_certainty |-> retrieval_certainty,
                         generation_certainty |-> generation_certainty ] ]

(***************************************************************************)
(* VerificationPipeline (verification_pipeline.py).  The glyphs that open  *)
(* some lines of the messages are left out of the strings.                 *)
(***************************************************************************)
RECURSIVE Join(_, _)
\* sep.join(parts)
Join(sep, parts) ==
  IF parts = <<>> THEN ""
  ELSE IF Len(parts) = 1 THEN Head(parts)
  ELSE Head(parts) \o sep \o Join(sep, Tail(parts))

\* sum(1 for h in hallucination_analysis.get('hallucinations', []) if h.get('severity') == sev)
CountHallucinations(hallucination_analysis, sev) ==
  LET hs == Get(hallucination_analysis, "hallucinations", <<>>)
  IN  Cardinality({i \in DOMAIN hs : Get(hs[i], "severity", "") = sev})

\* _generate_warning_message: <<>> stands for None
generate_warning_message(confidence_level, score, hallucination_analysis) ==
  LET base ==
        IF confidence_level = "medium"
        THEN << "Based on available guidelines; verify with attending or senior resident before clinical application." >>
        ELSE IF confidence_level = "low" \/ confidence_level = "critical"
        THEN << "CAUTION: Insufficient evidence in knowledge base. Consult supervisor or primary sources before use." >>
        ELSE <<>>
      critical_errors == CountHallucinations(hallucination_analysis, "critical")
      high_errors == CountHallucinations(hallucination_analysis, "high")
      specific ==
        IF critical_errors > 0
        THEN << "CRITICAL: " \o IntToStr(critical_errors)
                \o " critical hallucination(s) detected. DO NOT USE for patient care." >>
        ELSE IF high_errors > 0
        THEN << "WARNING: " \o IntToStr(high_errors)
                \o " high-severity hallucination(s) detected. Verify before use." >>
        ELSE <<>>
      warnings == base \o specific
  IN  IF warnings # <<>> THEN << Join("\n", warnings) >> ELSE <<>>

\* verify_answer, "Compile complete report": the report dict, with the warning if there is one
AssembleReport(extracted_claims, verification_results, hallucination_analysis, decision, uncertainty_analysis, warning_message) ==
  [ verification_score |-> verification_results.verification_score,
    confidence_level |-> verification_results.confidence_level,
    total_claims |-> verification_results.total_claims,
    verified_claims |-> verification_results.verified_claims,
    unverified_claims |-> verification_results.unverified_claims,
    category_scores |-> verification_results.category_scores,
    unverified_details |-> verification_results.unverified_details,
    extracted_claims |-> extracted_claims,
    hallucination_analysis |-> hallucination_analysis,
    abstention_decision |-> [should_abstain |-> decision[1], reason |-> decision[2]],
    uncertainty_analysis |-> uncertainty_analysis ]
  @@ (IF warning_message # <<>>
      THEN [warning_message |-> warning_message[1]]
      ELSE [x \in {} |-> ""])

\* steps 5-7 of verify_answer, on verification_results with its confidence level
DecideAndAssemble(enable_abstention_, abstention_threshold_, extracted_claims, verification_results, hallucination_analysis) ==
  AssembleReport(extracted_claims, verification_results, hallucination_analysis,
                 should_abstain(enable_abstention_, abstention_threshold_, verification_results),
                 calculate_overall_uncertainty(verification_results),
                 generate_warning_message(verification_results.confidence_level,
                                          verification_results.verification_score,
                                          hallucination_analysis))

\* steps 3-4 of verify_answer, on the result vr of verify_claims
AnalyseResults(enable_abstention_, abstention_threshold_, extracted_claims, vr) ==
  DecideAndAssemble(
    enable_abstention_, abstention_threshold_, extracted_claims,
    vr @@ [confidence_level |-> get_verification_confidence_level(vr.verification_score)],
    generate_error_report(vr))

\* the report verify_answer compiles from the extracted claims; g and f are
\* the graph and the driver's failure mode during the call
CompileReport(g, f, enable_abstention_, abstention_threshold_, extracted_claims) ==
  AnalyseResults(enable_abstention_, abstention_threshold_, extracted_claims,
                 verify_claims(g, f, extracted_claims))

\* _format_abstention_message
format_abstention_message(verification_report) ==
  LET abstention == Get(verification_report, "abstention_decision", [x \in {} |-> ""])
      reason == Get(abstention, "reason", "Unknown reason")
  IN  "\n\nSYSTEM ABSTENTION\n"
      \o "The system has determined it cannot provide a safe answer for this query.\n\n"
      \o "Reason: " \o reason \o "\n\n"
      \o "Recommendation: Please consult:\n"
      \o "  Attending surgeon or senior resident\n"
      \o "  Primary surgical literature\n"
      \o "  Institutional protocols\n\n"
      \o "Patient safety is our priority. When in doubt, we abstain.\n"

\* the confidence indicator line of format_verification_for_user
ConfidenceIndicator(confidence) ==
  IF confidence = "high" THEN "HIGH CONFIDENCE"
  ELSE IF confidence = "medium" THEN "MEDIUM CONFIDENCE"
  ELSE "LOW CONFIDENCE"

\* the "Hallucination Detection" block of format_verification_for_user
FormatHallucinations(hall_analysis) ==
  IF Get(hall_analysis, "total_hallucinations", 0) > 0
  THEN LET severity_counts == Get(hall_analysis, "severity_distribution", [x \in {} |-> 0])
           parts == (IF Get(severity_counts, "critical", 0) > 0
                     THEN << "Critical: " \o IntToStr(severity_counts["critical"]) >> ELSE <<>>)
                    \o (IF Get(severity_counts, "high", 0) > 0
                        THEN << "High: " \o IntToStr(severity_counts["high"]) >> ELSE <<>>)
                    \o (IF Get(severity_counts, "medium", 0) > 0
                        THEN << "Medium: " \o IntToStr(severity_counts["medium"]) >> ELSE <<>>)
                    \o (IF Get(severity_counts, "low", 0) > 0
                        THEN << "Low: " \o IntToStr(severity_counts["low"]) >> ELSE <<>>)
       IN  "\nHallucination Detection:\n"
           \o "  Total: " \o IntToStr(hall_analysis.total_hallucinations) \o "\n"
           \o "  Safety Score: " \o FormatFixed2(Get(hall_analysis, "safety_score", Zero)) \o "/1.00\n"
           \o (IF DOMAIN severity_counts # {}
               THEN "  Severity: " \o Join(", ", parts) \o "\n" ELSE "")
  ELSE ""

\* the "Category Verification" block of format_verification_for_user
FormatCategories(cat_scores) ==
  IF \E k \in DOMAIN cat_scores : RatLt(Zero, cat_scores[k])
  THEN "\nCategory Verification:\n"
       \o (IF RatLt(Zero, Get(cat_scores, "instruments", Zero))
           THEN "  Instruments: " \o FormatPercent(cat_scores["instruments"]) \o "\n" ELSE "")
       \o (IF RatLt(Zero, Get(cat_scores, "step_order", Zero))
           THEN "  Step Order: " \o FormatPercent(cat_scores["step_order"]) \o "\n" ELSE "")
       \o (IF RatLt(Zero, Get(cat_scores, "anatomy", Zero))
           THEN "  Anatomy: " \o FormatPercent(cat_scores["anatomy"]) \o "\n" ELSE "")
       \o (IF RatLt(Zero, Get(cat_scores, "complications", Zero))
           THEN "  Complications: " \o FormatPercent(cat_scores["complications"]) \o "\n" ELSE "")
  ELSE ""

\* mutant of ReportAbstains: the decision is read under the wrong key
ReportAbstains_WrongKey(verification_report) ==
  Get(Get(verification_report, "abstention_decision", [x \in {} |-> FALSE]),
      "abstain", FALSE)

\* the abstention test of format_verification_for_user
ReportAbstains(verification_report) ==
  Get(Get(verification_report, "abstention_decision", [x \in {} |-> FALSE]),
      "should_abstain", FALSE)

\* VerificationPipeline.format_verification_for_user
format_verification_for_user(verification_report) ==
  LET score == verification_report.verification_score
      confidence == verification_report.confidence_level
      verified == verification_report.verified_claims
      total == verification_report.total_claims
  IN  IF ReportAbstains(verification_report)
      THEN format_abstention_message(verification_report)
      ELSE "\n\n" \o ConfidenceIndicator(confidence) \o "\n"
           \o "Verification: " \o IntToStr(verified) \o "/" \o IntToStr(total)
           \o " claims verified against knowledge graph (" \o FormatPercent(score) \o ")\n"
           \o (IF "warning_message" \in DOMAIN verification_report
               THEN "\n" \o verification_report.warning_message \o "\n" ELSE "")
           \o (IF "hallucination_analysis" \in DOMAIN verification_report
               THEN FormatHallucinations(verification_report.hallucination_analysis) ELSE "")
           \o (IF "uncertainty_analysis" \in DOMAIN verification_report
               THEN LET c == RatSub(One, Get(verification_report.uncertainty_analysis,
                                             "overall_uncertainty", Zero))
                    IN  "\nUncertainty: " \o IntToStr(RoundHalfEven(100 * c.n, c.d)) \o "% certain\n"
               ELSE "")
           \o FormatCategories(verification_report.category_scores)

(***************************************************************************)
(* Claims the extraction service can return (claim_extractor.py: the four  *)
(* lists _validate_claims keeps), over a small vocabulary.                 *)
(***************************************************************************)
InstrumentClaims ==
  { [step |-> "dissection", instrument |-> "Grasper", usage |-> "retraction"],
    [step |-> "dissection", instrument |-> "scalpel", usage |-> "cutting"],
    [step |-> "dissection", instrument |-> "laser", usage |-> "cutting"],
    [step |-> "", instrument |-> "grasper", usage |-> "retraction"] }

StepOrderClaims ==
  { [procedure |-> "cholecystectomy", step_before |-> "dissection",
     step_after |-> "clipping", relationship |-> "PRECEDES"],
    [procedure |-> "cholecystectomy", step_before |-> "clipping",
     step_after |-> "dissection", relationship |-> "PRECEDES"],
    [procedure |-> "cholecystectomy", step_before |-> "Dissection",
     step_after |-> "Clipping", relationship |-> "precedes"],
    [procedure |-> "cholecystectomy", step_before |-> "",
     step_after |-> "clipping", relationship |-> "PRECEDES"] }

AnatomyClaims ==
  { [procedure |-> "cholecystectomy", anatomical_structure |-> "cystic duct",
     relationship |-> "INVOLVES"],
    [procedure |-> "cholecystectomy", anatomical_structure |-> "liver",
     relationship |-> "AVOIDS"],
    [procedure |-> "cholecystectomy", anatomical_structure |-> "spleen",
     relationship |-> "INVOLVES"],
    [procedure |-> "cholecystectomy", anatomical_structure |-> "aberrant biliary anatomy",
     relationship |-> "IDENTIFIES"],
    [procedure |-> "cholecystectomy", anatomical_structure |-> "",
     relationship |-> "INVOLVES"] }

ComplicationClaims ==
  { [procedure |-> "cholecystectomy", complication |-> "bleeding",
     management |-> "direct pressure"],
    [procedure |-> "cholecystectomy", complication |-> "bile leak",
     management |-> "drain placement"],
    [procedure |-> "cholecystectomy", complication |-> "opioid overdose",
     management |-> "dosage reduction"] }

\* the most claims one answer yields in the model
MaxClaims == 2

\* the sequences of length n over S
SeqN(S, n) == [1..n -> S]

\* how MaxClaims or fewer claims split over the four categories
LengthSplits ==
  {k \in [1..4 -> 0..MaxClaims] : k[1] + k[2] + k[3] + k[4] <= MaxClaims}

\* the claim sets extract_claims can return
ClaimSets ==
  UNION { [ instrument_claims : SeqN(InstrumentClaims, k[1]),
            step_order_claims : SeqN(StepOrderClaims, k[2]),
            anatomy_claims : SeqN(AnatomyClaims, k[3]),
            complication_claims : SeqN(ComplicationClaims, k[4]) ] : k \in LengthSplits }

\* ClaimExtractor.count_total_claims
count_total_claims(claims) ==
  Len(claims.instrument_claims) + Len(claims.step_order_claims)
  + Len(claims.anatomy_claims) + Len(claims.complication_claims)

\* the most entries of the uncertainty log the model lets accumulate
MaxLog == 1

(***************************************************************************)
(* State                                                                   *)
(***************************************************************************)
VARIABLES
  graph,                 \* GraphVerifier.graph: the knowledge graph
  abstention_threshold,  \* AbstentionPolicy.abstention_threshold
  enable_abstention,     \* AbstentionPolicy.enable_abstention
  uncertainty_log,       \* UncertaintyQuantifier.uncertainty_log
  report,                \* the report of the last verify_answer call, or None
  message,               \* << what format_verification_for_user returned for it >>, or << >>
  policy_in,             \* the argument of a direct should_abstain call, or None
  policy_out,            \* << what that call returned >>, or << >>
  scored,                \* the last severity distribution scored, with its safety score, or None
  scored_before,         \* the one scored before it, or None
  vector_weight,         \* GraphEnhancedRetriever.vector_weight
  graph_weight,          \* GraphEnhancedRetriever.graph_weight
  retrieval,             \* the last GraphEnhancedRetriever.retrieve call and its outcome, or None
  subquery_results,      \* what _single_retrieval returned for each sub-query of the last query
  requested_top_k,       \* the top_k of that query
  merged_results,        \* << what MultiStepRetriever.retrieve returned for it >>, or << >>
  chat_call,             \* the last /chat request and its response, or None
  client_configured,     \* QueryDecomposer.client is not None (both decomposers)
  decomposition_cache,   \* QueryDecomposer.decomposition_cache (query_decomposition)
  decomposed,            \* the last decompose / decompose_query call and its outcome, or None
  batch,                 \* the last direct GraphVerifier.verify_claims call and its outcome, or None
  extraction,            \* the extract_claims call of the last verify_answer, or None
  component_call,        \* the last constructor or _compute_source_agreement call, or None
  driver                 \* how the graph driver behaved during the last verify_answer, or None

pipeline_vars == << graph, abstention_threshold, enable_abstention, uncertainty_log,
                    report, message, policy_in, policy_out, extraction, driver >>
classifier_vars == << scored, scored_before >>
retriever_vars == << vector_weight, graph_weight, retrieval >>
aggregator_vars == << subquery_results, requested_top_k, merged_results >>

service_vars == << chat_call, client_configured, decomposition_cache, decomposed, batch,
                   component_call >>

vars == << pipeline_vars, classifier_vars, retriever_vars, aggregator_vars, service_vars >>

\* "no value": no call made yet, or its result handed back
None == [none |-> TRUE]

\* no call of the classifier, the hybrid retriever or the aggregator yet
ClassifierIdle == scored = None /\ scored_before = None
RetrieverIdle == vector_weight = Rat(6, 10) /\ graph_weight = Rat(4, 10) /\ retrieval = None
AggregatorIdle == subquery_results = <<>> /\ requested_top_k = 0 /\ merged_results = <<>>
ServiceIdle ==
  chat_call = None /\ decomposed = None /\ batch = None /\ component_call = None
DecomposerIdle == client_configured = TRUE /\ decomposition_cache = [x \in {} |-> ""]

\* VerificationPipeline.__init__
Init ==
  /\ graph \in {PopulatedGraph, EmptyGraph}
  /\ abstention_threshold \in {Rat(5, 10), Rat(8, 10)}
  /\ enable_abstention \in BOOLEAN
  /\ uncertainty_log = <<>>
  /\ report = None
  /\ message = <<>>
  /\ policy_in = None
  /\ policy_out = <<>>
  /\ extraction = None
  /\ driver = None
  /\ ClassifierIdle /\ RetrieverIdle /\ AggregatorIdle /\ ServiceIdle /\ DecomposerIdle

Idle == report = None /\ policy_out = <<>>

\* a constructed pipeline that is not called
PipelineIdle ==
  /\ graph = EmptyGraph
  /\ abstention_threshold = Rat(5, 10)
  /\ enable_abstention = TRUE
  /\ uncertainty_log = <<>>
  /\ report = None
  /\ message = <<>>
  /\ policy_in = None
  /\ policy_out = <<>>
  /\ extraction = None
  /\ driver = None

\* ClaimExtractor._empty_claims
empty_claims ==
  [ instrument_claims |-> <<>>, step_order_claims |-> <<>>,
    anatomy_claims |-> <<>>, complication_claims |-> <<>> ]

\* ClaimExtractor._validate_claims: the four lists, each as it came or []
validate_claims(claims) ==
  [ key \in DOMAIN empty_claims |-> IF key \in DOMAIN claims THEN claims[key] ELSE <<>> ]

\* what the extraction service does with one request: the call raises, or it
\* returns a content that json.loads rejects (parsed = << >>) or parses to a
\* JSON object (parsed = << object >>), with all four lists or with one
ExtractionReplies ==
  { [raised |-> TRUE, parsed |-> <<>>], [raised |-> FALSE, parsed |-> <<>>] }
  \cup { [raised |-> FALSE, parsed |-> << claims >>] : claims \in ClaimSets }
  \cup { [raised |-> FALSE, parsed |-> << [instrument_claims |-> << c >>] >>] :
           c \in InstrumentClaims }

\* the extractor was built without a key (client is None, no request is
\* made), or with one and the service replies
ExtractionCalls ==
  { [client |-> FALSE, reply |-> None] }
  \cup { [client |-> TRUE, reply |-> r] : r \in ExtractionReplies }

\* ClaimExtractor.extract_claims
extract_claims(client, reply) ==
  IF ~client THEN empty_claims
  ELSE IF reply.raised \/ reply.parsed = <<>> THEN empty_claims
  ELSE validate_claims(reply.parsed[1])

\* VerificationPipeline.verify_answer(query, answer): the extraction call
\* goes as `call`, the graph driver behaves as `f`
VerifyAnswer ==
  /\ Idle
  /\ Len(uncertainty_log) < MaxLog
  /\ \E call \in ExtractionCalls, f \in FailureModes :
       /\ extraction' = call
       /\ driver' = f
       /\ report' = CompileReport(graph, f, enable_abstention, abstention_threshold,
                                  extract_claims(call.client, call.reply))
       /\ uncertainty_log' = Append(uncertainty_log, report'.uncertainty_analysis)
  /\ message' = <<>>
  /\ UNCHANGED << graph, abstention_threshold, enable_abstention, policy_in, policy_out >>
  /\ UNCHANGED << classifier_vars, retriever_vars, aggregator_vars, service_vars >>

\* VerificationPipeline.format_verification_for_user(report)
FormatForUser ==
  /\ report # None
  /\ message = <<>>
  /\ message' = << format_verification_for_user(report) >>
  /\ UNCHANGED << graph, abstention_threshold, enable_abstention, uncertainty_log,
                  report, policy_in, policy_out, extraction, driver >>
  /\ UNCHANGED << classifier_vars, retriever_vars, aggregator_vars, service_vars >>

\* verification results handed to should_abstain directly
PolicyInputs ==
  { [ verification_score |-> Rat(v, t), total_claims |-> t, verified_claims |-> v,
      unverified_details |-> d ] :
      v \in 0..2, t \in {2},
      d \in { <<>>,
              << [type |-> "anatomy", reason |-> "Anatomical structure not found in graph",
                  claim |-> [procedure |-> "cholecystectomy",
                             anatomical_structure |-> "spleen",
                             relationship |-> "INVOLVES"]] >>,
              << [type |-> "complication", reason |-> "Complication not found in graph",
                  claim |-> [procedure |-> "cholecystectomy",
                             complication |-> "contraindication to surgery",
                             management |-> "none"]] >> } }
  \cup { [x \in {} |-> 0],
         [verification_score |-> One, total_claims |-> 0, unverified_details |-> <<>>] }

\* AbstentionPolicy.should_abstain(verification_results), called directly
PolicyCheck ==
  /\ Idle
  /\ \E vr \in PolicyInputs :
       /\ policy_in' = vr
       /\ policy_out' = << should_abstain(enable_abstention, abstention_threshold, vr) >>
  /\ UNCHANGED << graph, abstention_threshold, enable_abstention, uncertainty_log,
                  report, message, extraction, driver >>
  /\ UNCHANGED << classifier_vars, retriever_vars, aggregator_vars, service_vars >>

\* the caller is done with the results: they are per-request values
Return ==
  /\ ~Idle
  /\ report' = None
  /\ message' = <<>>
  /\ policy_in' = None
  /\ policy_out' = <<>>
  /\ extraction' = None
  /\ driver' = None
  /\ UNCHANGED << graph, abstention_threshold, enable_abstention, uncertainty_log >>
  /\ UNCHANGED << classifier_vars, retriever_vars, aggregator_vars, service_vars >>

Next == VerifyAnswer \/ FormatForUser \/ PolicyCheck \/ Return

Spec == Init /\ [][Next]_vars

(***************************************************************************)
(* Properties of the verification pipeline (specification Spec)            *)
(***************************************************************************)
\* the graph records the relation a step-order claim states, between steps
\* whose names contain the claimed names
RelationRecorded(g, claim) ==
  \E e \in g.order :
    /\ Contains(Lower(e[1]), Lower(claim.step_before))
    /\ Contains(Lower(e[3]), Lower(claim.step_after))
    /\ e[2] = Upper(claim.relationship)

\* the answer of the last verify_answer call yielded exactly one claim, a
\* step-order claim naming both steps, whose relation the graph does not record
OneContradictedStepOrderClaim ==
  /\ report # None
  /\ count_total_claims(report.extracted_claims) = 1
  /\ Len(report.extracted_claims.step_order_claims) = 1
  /\ LET c == report.extracted_claims.step_order_claims[1]
     IN  c.step_before # "" /\ c.step_after # "" /\ ~RelationRecorded(graph, c)

\* C1: with abstention enabled, an answer whose only claim is a step-order
\* claim (both step names present) that the graph does not record is reported
\* with verified_claims = 0, total_claims = 1, verification_score = 0.0, one
\* hallucination of type step_order_error and severity critical, and
\* abstention_decision.should_abstain = true.
C1_StepOrderContradictionAbstains ==
  (enable_abstention /\ OneContradictedStepOrderClaim) =>
    /\ report.verified_claims = 0
    /\ report.total_claims = 1
    /\ report.verification_score = Zero
    /\ report.hallucination_analysis.total_hallucinations = 1
    /\ Len(report.hallucination_analysis.classifications) = 1
    /\ report.hallucination_analysis.classifications[1].hallucination_type = "step_order_error"
    /\ report.hallucination_analysis.classifications[1].severity = "critical"
    /\ report.abstention_decision.should_abstain = TRUE

\* C1 witness: the populated graph records dissection PRECEDES clipping, the
\* answer claimed the reverse, and the graph query ran
C1_Witness ==
  /\ enable_abstention
  /\ OneContradictedStepOrderClaim
  /\ graph = PopulatedGraph
  /\ report.extracted_claims.step_order_claims[1].step_before = "clipping"
  /\ report.unverified_details[1].reason = "Step ordering not found in graph"
  /\ report.abstention_decision.should_abstain

\* the three grounds for abstention, read off verification results vr
AbstentionGrounds(vr) ==
  \/ Get(vr, "total_claims", 0) = 0
  \/ RatLt(Get(vr, "verification_score", Zero), abstention_threshold)
  \/ \E i \in DOMAIN Get(vr, "unverified_details", <<>>) :
       \E keyword \in {"dosage", "contraindication", "complication management", "anatomy"} :
         Contains(Lower(ClaimRepr(vr.unverified_details[i])), keyword)

CriticalKeywordClaim(detail) ==
  \/ detail.type = "anatomy"
  \/ detail.type = "complication"
  \/ Contains(Lower(ClaimRepr(detail)), "dosage")
  \/ Contains(Lower(ClaimRepr(detail)), "contraindication")

\* C3: with abstention enabled, whenever some unverified claim is a
\* critical-keyword claim (an unverified anatomy claim, an unverified
\* complication-management claim, a claim about dosage or contraindication),
\* should_abstain returns true, also when the score is at or above the threshold.
C3_CriticalClaimAlwaysAbstains ==
  (enable_abstention /\ report # None
   /\ \E i \in DOMAIN report.unverified_details :
        CriticalKeywordClaim(report.unverified_details[i]))
    => report.abstention_decision.should_abstain

\* C4: whenever the report abstains, format_verification_for_user returns a
\* refusal that states the reason and recommends primary sources, with no
\* confidence badge and no claim-verification summary line.
C4_AbstentionMessageIsRefusal ==
  (report # None /\ message # <<>> /\ report.abstention_decision.should_abstain) =>
    /\ Contains(message[1], "SYSTEM ABSTENTION")
    /\ Contains(message[1], "cannot provide a safe answer")
    /\ report.abstention_decision.reason # ""
    /\ Contains(message[1], "Reason: " \o report.abstention_decision.reason)
    /\ Contains(message[1], "Recommendation: Please consult:")
    /\ Contains(message[1], "Primary surgical literature")
    /\ ~Contains(message[1], "HIGH CONFIDENCE")
    /\ ~Contains(message[1], "MEDIUM CONFIDENCE")
    /\ ~Contains(message[1], "LOW CONFIDENCE")
    /\ ~Contains(message[1], "Verification: ")
    /\ ~Contains(message[1], "claims verified against knowledge graph")

\* C4 witness: an abstaining report whose confidence level is high (no
\* claims, score 1.0) has been formatted
C4_Witness ==
  /\ report # None
  /\ message # <<>>
  /\ report.abstention_decision.should_abstain
  /\ report.confidence_level = "high"

\* the list of extracted claims of the category whose details carry `type`
ClaimsOfType(claims, type) ==
  CASE type = "instrument" -> claims.instrument_claims
    [] type = "step_order" -> claims.step_order_claims
    [] type = "anatomy" -> claims.anatomy_claims
    [] type = "complication" -> claims.complication_claims

\* verified/total of one category, counted from the report's own lists
CategoryRatio(r, type) ==
  LET total == Len(ClaimsOfType(r.extracted_claims, type))
      unverified == Cardinality({i \in DOMAIN r.unverified_details :
                                   r.unverified_details[i].type = type})
  IN  IF total = 0 THEN One ELSE Rat(total - unverified, total)

\* C6: verification_score = verified_claims / total_claims when
\* total_claims > 0 and exactly 1.0 when total_claims = 0; each category
\* score is verified/total of the category, or 1.0 for an empty category.
C6_ScoresAreRatios ==
  report # None =>
    /\ report.total_claims > 0 =>
         report.verification_score.n * report.total_claims
           = report.verified_claims * report.verification_score.d
    /\ report.total_claims = 0 => report.verification_score = One
    /\ report.category_scores.instruments = CategoryRatio(report, "instrument")
    /\ report.category_scores.step_order = CategoryRatio(report, "step_order")
    /\ report.category_scores.anatomy = CategoryRatio(report, "anatomy")
    /\ report.category_scores.complications = CategoryRatio(report, "complication")

\* C6 witness: two claims of which one verified, and a category without claims
C6_Witness ==
  /\ report # None
  /\ report.total_claims = 2
  /\ report.verified_claims = 1
  /\ report.verification_score = Rat(1, 2)
  /\ Len(report.extracted_claims.instrument_claims) = 0
  /\ report.category_scores.instruments = One

(***************************************************************************)
(* The safety score of the Hallucination Classifier (specification         *)
(* SafetySpec): generate_error_report scores the severity distribution of  *)
(* the classifications it has counted.                                     *)
(***************************************************************************)
MaxSeverityCount == 2

\* len(classifications): every classification has one of the four severities
TotalOf(severity_counts) ==
  severity_counts["critical"] + severity_counts["high"]
  + severity_counts["medium"] + severity_counts["low"]

\* the tail of generate_error_report for classifications counted as
\* severity_counts; the report after the first is for an answer with one more
\* hallucination than the answer before it
ScoreDistribution ==
  /\ \E severity_counts \in [Severities -> 0..MaxSeverityCount] :
       /\ scored # None =>
            \E s \in Severities :
              severity_counts = [scored.severity_distribution EXCEPT ![s] = @ + 1]
       /\ scored' = [ severity_distribution |-> severity_counts,
                      total_hallucinations |-> TotalOf(severity_counts),
                      safety_score |-> calculate_safety_score(severity_counts,
                                                              TotalOf(severity_counts)) ]
  /\ scored_before' = scored
  /\ UNCHANGED << pipeline_vars, retriever_vars, aggregator_vars, service_vars >>

SafetyInit ==
  /\ PipelineIdle /\ ClassifierIdle /\ RetrieverIdle /\ AggregatorIdle
  /\ ServiceIdle /\ DecomposerIdle

SafetyNext == ScoreDistribution

SafetySpec == SafetyInit /\ [][SafetyNext]_vars

\* C7: for every severity distribution, the safety score lies in [0, 1]
C7_SafetyScoreInUnitInterval ==
  scored # None =>
    /\ RatLe(Zero, scored.safety_score)
    /\ RatLe(scored.safety_score, One)

\* a distribution with hallucinations of every severity has been scored
C7_Witness ==
  /\ scored # None
  /\ \A s \in Severities : scored.severity_distribution[s] > 0
  /\ RatLt(Zero, scored.safety_score)
  /\ RatLt(scored.safety_score, One)

\* the distribution scored last has one critical hallucination more than the
\* one scored before it, and the same counts of high, medium and low
OneMoreCritical ==
  /\ scored # None
  /\ scored_before # None
  /\ scored.severity_distribution =
       [scored_before.severity_distribution EXCEPT !["critical"] = @ + 1]

\* the distribution scored before holds a hallucination that is not critical
NonCriticalPresent ==
  \E s \in Severities \ {"critical"} : scored_before.severity_distribution[s] > 0

\* C8 (as stated): with high, medium and low fixed, k+1 critical
\* hallucinations score strictly lower than k, for every k >= 0
C8_StrictlyDecreasingInCritical ==
  OneMoreCritical => RatLt(scored.safety_score, scored_before.safety_score)

\* C8 (amended): with high, medium and low fixed, k+1 critical hallucinations
\* never score higher than k; they score strictly lower when k = 0 or a
\* hallucination of another severity is present, and otherwise both score 0
C8_DecreasingInCritical ==
  OneMoreCritical =>
    /\ RatLe(scored.safety_score, scored_before.safety_score)
    /\ (scored_before.severity_distribution["critical"] = 0 \/ NonCriticalPresent)
         => RatLt(scored.safety_score, scored_before.safety_score)
    /\ (scored_before.severity_distribution["critical"] > 0 /\ ~NonCriticalPresent)
         => (scored.safety_score = Zero /\ scored_before.safety_score = Zero)

\* one more critical hallucination was scored next to hallucinations of other
\* severities, after a distribution that already held a critical one
C8_Witness ==
  /\ OneMoreCritical
  /\ NonCriticalPresent
  /\ scored_before.severity_distribution["critical"] > 0
  /\ RatLt(scored.safety_score, scored_before.safety_score)

(***************************************************************************)
(* MultiStepRetriever (query_processing/multi_step_retriever.py),          *)
(* specification MergeSpec.  A retrieval result is a record (a dict); the  *)
(* retriever is a GraphEnhancedRetriever or a FaissManager.                *)
(***************************************************************************)
EmptyDict == [x \in {} |-> ""]

\* Python `k in d`
Has(d, k) == k \in DOMAIN d

\* retrieve: result['subquery_idx'] = idx; result['subquery'] = subquery
TagResults(results, idx) ==
  [i \in DOMAIN results |->
     [subquery_idx |-> idx, subquery |-> "sub-query " \o IntToStr(idx)] @@ results[i]]

RECURSIVE AllResults(_, _)
\* retrieve: all_results after the loop over the first n sub-queries
AllResults(results_per_subquery, n) ==
  IF n = 0 THEN <<>>
  ELSE AllResults(results_per_subquery, n - 1)
       \o TagResults(results_per_subquery[n], n - 1)

\* _get_chunk_id.  The identifier is modelled as a pair whose first element
\* names the branch taken; hash() is modelled as injective.
get_chunk_id(result) ==
  IF Has(result, "id") THEN << "id", result.id >>
  ELSE IF Has(result, "chunk_id") THEN << "id", result.chunk_id >>
  ELSE IF Has(Get(result, "metadata", EmptyDict), "id") THEN << "id", result.metadata.id >>
  ELSE IF Has(Get(result, "metadata", EmptyDict), "chunk_id")
  THEN << "id", result.metadata.chunk_id >>
  ELSE IF Get(Get(result, "metadata", EmptyDict), "text", "") # ""
  THEN << "hash of text", Prefix(result.metadata.text, 200) >>
  ELSE << "hash of result", result >>

\* the positions of the results grouped under the chunk id of results[i]
ChunkMembers(results, i) ==
  {j \in DOMAIN results : get_chunk_id(results[j]) = get_chunk_id(results[i])}

\* max(data['scores'])
MaxScore(scores) == CHOOSE x \in scores : \A y \in scores : RatLe(y, x)

\* mutant of BoostedScore: an additive boost
BoostedScore_Additive(score, num_subqueries) ==
  RatAdd(score, Rat(num_subqueries - 1, 10))

\* if num_subqueries > 1: score *= (1.0 + 0.1 * (num_subqueries - 1))
BoostedScore(score, num_subqueries) ==
  IF num_subqueries > 1
  THEN RatMul(score, RatAdd(One, Rat(num_subqueries - 1, 10)))
  ELSE score

\* the merged result of one chunk_map entry
MergedEntry(first_result, scores, subquery_indices, subqueries) ==
  [ score |-> BoostedScore(MaxScore(scores), Cardinality(subquery_indices)),
    retrieved_by_subqueries |-> subquery_indices,
    num_subqueries |-> Cardinality(subquery_indices),
    all_subqueries |-> subqueries ] @@ first_result

\* the merged result of the chunk first seen at position i
MergeChunk(results, i) ==
  MergedEntry(results[i],
              {Get(results[j], "score", Zero) : j \in ChunkMembers(results, i)},
              {Get(results[j], "subquery_idx", 0) : j \in ChunkMembers(results, i)},
              {Get(results[j], "subquery", "") : j \in ChunkMembers(results, i)})

RECURSIVE MergedFrom(_, _)
\* `merged`, in the insertion order of chunk_map, for the chunks first seen
\* at position i or later
MergedFrom(results, i) ==
  IF i > Len(results) THEN <<>>
  ELSE (IF \A j \in 1..(i - 1) : get_chunk_id(results[j]) # get_chunk_id(results[i])
        THEN << MergeChunk(results, i) >> ELSE <<>>)
       \o MergedFrom(results, i + 1)

RECURSIVE InsertByKey(_, _, _)
\* x placed behind the elements of the descending list whose key is not lower
InsertByKey(sorted, x, key) ==
  IF sorted = <<>> THEN << x >>
  ELSE IF RatLt(Get(Head(sorted), key, Zero), Get(x, key, Zero))
  THEN << x >> \o sorted
  ELSE << Head(sorted) >> \o InsertByKey(Tail(sorted), x, key)

RECURSIVE SortDescending(_, _, _)
\* list.sort(key=lambda x: x[key], reverse=True) on the first n elements: a
\* stable descending sort
SortDescending(results, n, key) ==
  IF n = 0 THEN <<>>
  ELSE InsertByKey(SortDescending(results, n - 1, key), results[n], key)

\* results.sort(key=lambda x: x[key], reverse=True)
SortedDescending(results, key) == SortDescending(results, Len(results), key)

\* _deduplicate_and_merge
deduplicate_and_merge(results, top_k) ==
  Prefix(SortedDescending(MergedFrom(results, 1), "score"), top_k)

\* retrieve, given what _single_retrieval returns for each sub-query
multi_step_retrieve(results_per_subquery, top_k) ==
  IF Len(results_per_subquery) = 1
  THEN results_per_subquery[1]
  ELSE deduplicate_and_merge(AllResults(results_per_subquery, Len(results_per_subquery)), top_k)

MaxSubqueries == 3
MaxPerSubquery == 2
MaxTopK == 5

\* similarity scores: cosine values
RawScores == {Rat(-1, 2), Zero, Rat(1, 2)}

\* results of GraphEnhancedRetriever.retrieve that come from the vector index,
\* weighted with the default vector weight
IndexedItems ==
  { [ id |-> i, text |-> "Chunk " \o i, score |-> s,
      retrieval_source |-> "vector", vector_score |-> s,
      final_score |-> RatMul(s, Rat(6, 10)) ] : i \in {"a", "b"}, s \in RawScores }

\* results of GraphEnhancedRetriever.retrieve that come from the graph
GraphItems ==
  { [ text |-> "Procedure: Cholecystectomy",
      metadata |-> [source |-> "knowledge_graph", procedure |-> "Cholecystectomy"],
      retrieval_source |-> "graph",
      graph_score |-> One,
      final_score |-> Rat(4, 10) ] }

\* results of FaissManager.query, with the metadata stored at upload
FaissItems ==
  { [ score |-> s,
      metadata |-> [source |-> "notes.pdf", title |-> "notes.pdf", text |-> "Chunk " \o t] ] :
      t \in {"t"}, s \in RawScores \ {Zero} }

\* a result without its score: what two sub-queries both return when they
\* return the same item
Content(result) ==
  [k \in DOMAIN result \ {"score", "vector_score", "final_score"} |-> result[k]]

\* the score a retriever ranks by: the weighted score in the hybrid
\* retriever, the similarity in FaissManager
RankingScore(result) == Get(result, "final_score", Get(result, "score", Zero))

\* the lists a retriever over `pool` returns for one sub-query: at most
\* MaxPerSubquery different items, best first
ResultLists(pool) ==
  { rs \in UNION { [1..n -> pool] : n \in 0..MaxPerSubquery } :
      \A i \in DOMAIN rs, j \in DOMAIN rs :
        i < j => /\ Content(rs[i]) # Content(rs[j])
                 /\ RatLe(RankingScore(rs[j]), RankingScore(rs[i])) }

\* MultiStepRetriever.retrieve(query, top_k): the decomposer returns n
\* sub-queries, _single_retrieval returns rs[i] for the i-th
MultiStepRetrieve ==
  /\ merged_results = <<>>
  /\ \E pool \in { IndexedItems \cup GraphItems, FaissItems },
        n \in 1..MaxSubqueries, k \in {1, MaxTopK} :
       \E rs \in [1..n -> ResultLists(pool)] :
         /\ n = 1 => Len(rs[1]) <= k
         /\ subquery_results' = rs
         /\ requested_top_k' = k
         /\ merged_results' = << multi_step_retrieve(rs, k) >>
  /\ UNCHANGED << pipeline_vars, classifier_vars, retriever_vars, service_vars >>

MergeInit ==
  /\ PipelineIdle /\ ClassifierIdle /\ RetrieverIdle /\ AggregatorIdle
  /\ ServiceIdle /\ DecomposerIdle

\* the caller is done with the merged results
MultiStepReturn ==
  /\ merged_results # <<>>
  /\ subquery_results' = <<>>
  /\ requested_top_k' = 0
  /\ merged_results' = <<>>
  /\ UNCHANGED << pipeline_vars, classifier_vars, retriever_vars, service_vars >>

MergeNext == MultiStepRetrieve \/ MultiStepReturn

MergeSpec == MergeInit /\ [][MergeNext]_vars

\* the item an output entry stands for: the entry without its scores and
\* without what the aggregator added
ItemOf(entry) ==
  [k \in DOMAIN entry \ {"score", "vector_score", "final_score", "subquery_idx", "subquery",
                          "retrieved_by_subqueries", "num_subqueries", "all_subqueries"}
     |-> entry[k]]

\* the sub-queries (by position) that returned the item of the entry
RetrievingSubqueries(entry) ==
  {i \in DOMAIN subquery_results :
     \E j \in DOMAIN subquery_results[i] : Content(subquery_results[i][j]) = ItemOf(entry)}

\* the raw scores the item of the entry was returned with
RawScoresOf(entry) ==
  {Get(subquery_results[i][j], "score", Zero) :
     <<i, j>> \in {p \in (DOMAIN subquery_results) \X (1..MaxPerSubquery) :
                    /\ p[2] \in DOMAIN subquery_results[p[1]]
                    /\ Content(subquery_results[p[1]][p[2]]) = ItemOf(entry)}}

\* a query decomposed into two or more sub-queries has been aggregated
Aggregated == merged_results # <<>> /\ Len(subquery_results) >= 2

C10_MoreHitsRankHigher ==
  Aggregated =>
    \A p \in DOMAIN merged_results[1], q \in DOMAIN merged_results[1] :
      ( /\ RatEq(MaxScore(RawScoresOf(merged_results[1][p])),
                 MaxScore(RawScoresOf(merged_results[1][q])))
        /\ Cardinality(RetrievingSubqueries(merged_results[1][p]))
             > Cardinality(RetrievingSubqueries(merged_results[1][q])) )
      => /\ RatLt(Get(merged_results[1][q], "score", Zero),
                  Get(merged_results[1][p], "score", Zero))
         /\ p < q

(***************************************************************************)
(* GraphEnhancedRetriever (graph/graph_retriever.py), specification        *)
(* RetrieveSpec.  The vector index answers a search with a list of hits,   *)
(* best first; the graph store is a record of procedure contexts and of    *)
(* the related procedures of each procedure.                               *)
(***************************************************************************)
\* a / b for b > 0
RatDiv(a, b) == Rat(a.n * b.d, a.d * b.n)

\* extractor.extract_entities(text)['procedures']: the known procedures the
\* lower-cased text mentions
ExtractProcedures(text) ==
  SelectSeq(<< "cholecystectomy", "appendectomy" >>,
            LAMBDA proc : Contains(Lower(text), proc))

\* a store with two procedures, each related to the other
PopulatedStore ==
  [ contexts |->
      [ cholecystectomy |->
          [ procedure |-> "cholecystectomy", description |-> "Removal of the gallbladder",
            anatomy |-> << "cystic duct", "liver" >>, instruments |-> << "grasper" >>,
            complications |-> << "bleeding" >>, techniques |-> <<>>, medications |-> <<>> ],
        appendectomy |->
          [ procedure |-> "appendectomy", description |-> "",
            anatomy |-> << "appendix" >>, instruments |-> <<>>,
            complications |-> <<>>, techniques |-> <<>>, medications |-> <<>> ] ],
    related |->
      [ cholecystectomy |-> << [procedure |-> "appendectomy", distance |-> 2] >>,
        appendectomy |-> << [procedure |-> "cholecystectomy", distance |-> 1] >> ] ]

\* Neo4jManager.get_procedure_context: {} for an unknown procedure
get_procedure_context(store, procedure) == Get(store.contexts, procedure, EmptyDict)

\* Neo4jManager.find_related_procedures(procedure, max_depth), nearest first
find_related_procedures(store, procedure, max_depth) ==
  SelectSeq(Get(store.related, procedure, <<>>), LAMBDA rel : rel.distance <= max_depth)

\* one line of _format_graph_context for a list-valued field
ContextLine(context, field, label) ==
  IF Get(context, field, <<>>) # <<>>
  THEN << label \o ": " \o Join(", ", context[field]) >> ELSE <<>>

\* _format_graph_context
format_graph_context(context) ==
  Join("\n",
       << "Procedure: " \o context.procedure >>
       \o (IF Get(context, "description", "") # ""
           THEN << "Description: " \o context.description >> ELSE <<>>)
       \o ContextLine(context, "anatomy", "Anatomical Structures")
       \o ContextLine(context, "instruments", "Required Instruments")
       \o ContextLine(context, "techniques", "Techniques")
       \o ContextLine(context, "complications", "Potential Complications")
       \o ContextLine(context, "medications", "Medications"))

\* what goes wrong during one retrieve call: the vector search raises, the
\* entity extractor raises, every graph query raises
RetrievalFailures ==
  { [vector |-> FALSE, extractor |-> FALSE, graph |-> FALSE],
    [vector |-> TRUE, extractor |-> FALSE, graph |-> FALSE],
    [vector |-> FALSE, extractor |-> TRUE, graph |-> FALSE],
    [vector |-> FALSE, extractor |-> FALSE, graph |-> TRUE] }

\* _vector_retrieve: the index returns the best top_k of its hits
vector_retrieve(hits, f, top_k) ==
  IF f.vector THEN <<>>
  ELSE [i \in DOMAIN Prefix(hits, top_k) |->
          [retrieval_source |-> "vector", vector_score |-> Get(hits[i], "score", Zero)]
          @@ hits[i]]

\* _graph_retrieve: the result appended for a context
GraphResult(context, metadata, graph_score) ==
  IF context = EmptyDict THEN <<>>
  ELSE << [ text |-> format_graph_context(context),
            metadata |-> metadata @@ [entities |-> context],
            retrieval_source |-> "graph",
            graph_score |-> graph_score ] >>

\* _graph_retrieve: the result appended for a related procedure
RelatedResult(store, procedure, rel_proc) ==
  GraphResult(get_procedure_context(store, rel_proc.procedure),
              [source |-> "knowledge_graph", procedure |-> rel_proc.procedure,
               related_to |-> procedure, distance |-> rel_proc.distance],
              Rat(1, 1 + rel_proc.distance))

RECURSIVE RelatedResults(_, _, _)
\* _graph_retrieve: the results appended for the related procedures `related`
RelatedResults(store, procedure, related) ==
  IF related = <<>> THEN <<>>
  ELSE RelatedResult(store, procedure, Head(related))
       \o RelatedResults(store, procedure, Tail(related))

\* _graph_retrieve: the results appended for one procedure of the query
ProcedureResults(store, procedure) ==
  GraphResult(get_procedure_context(store, procedure),
              [source |-> "knowledge_graph", procedure |-> procedure], One)
  \o RelatedResults(store, procedure, Prefix(find_related_procedures(store, procedure, 2), 2))

RECURSIVE AllProcedureResults(_, _)
\* _graph_retrieve: graph_results after the loop over `procedures`
AllProcedureResults(store, procedures) ==
  IF procedures = <<>> THEN <<>>
  ELSE ProcedureResults(store, Head(procedures))
       \o AllProcedureResults(store, Tail(procedures))

\* _graph_retrieve: a graph query that raises ends the turn of its procedure
graph_retrieve(store, f, procedures, top_k) ==
  IF f.graph THEN <<>>
  ELSE Prefix(SortedDescending(AllProcedureResults(store, Prefix(procedures, 3)),
                               "graph_score"),
              top_k)

\* _merge_results: result['final_score'] = result.get(field, 0.0) * weight
Weighted(results, field, weight) ==
  [i \in DOMAIN results |->
     [final_score |-> RatMul(Get(results[i], field, Zero), weight)] @@ results[i]]

\* text_key = text[:100].lower().strip()
TextKey(result) == Strip(Lower(Prefix(Get(result, "text", ""), 100)))

RECURSIVE DeduplicateFrom(_, _)
\* _deduplicate_results: the results at position i or later whose text key
\* has not been seen
DeduplicateFrom(results, i) ==
  IF i > Len(results) THEN <<>>
  ELSE (IF \A j \in 1..(i - 1) : TextKey(results[j]) # TextKey(results[i])
        THEN << results[i] >> ELSE <<>>)
       \o DeduplicateFrom(results, i + 1)

\* _deduplicate_results
deduplicate_results(results) == DeduplicateFrom(results, 1)

\* _merge_results
merge_results(vector_results, graph_results, top_k, vw, gw) ==
  Prefix(SortedDescending(deduplicate_results(Weighted(vector_results, "vector_score", vw)
                                              \o Weighted(graph_results, "graph_score", gw)),
                          "final_score"),
         top_k)

\* _expand_with_graph_context: metadata['related_procedures'], when the text
\* names a procedure that has related procedures
RelatedNames(store, f, procedures) ==
  IF procedures = <<>> \/ f.graph THEN EmptyDict
  ELSE IF find_related_procedures(store, Head(procedures), 1) = <<>> THEN EmptyDict
  ELSE [ related_procedures |->
           [i \in DOMAIN Prefix(find_related_procedures(store, Head(procedures), 1), 3) |->
              find_related_procedures(store, Head(procedures), 1)[i].procedure] ]

\* _expand_with_graph_context: the metadata of one enriched result
ExpandedMetadata(store, f, metadata, procedures) ==
  RelatedNames(store, f, procedures)
  @@ [extracted_entities |-> [procedures |-> procedures]]
  @@ metadata

\* _expand_with_graph_context
expand_with_graph_context(store, f, results) ==
  [i \in DOMAIN results |->
     [metadata |-> ExpandedMetadata(store, f, Get(results[i], "metadata", EmptyDict),
                                    ExtractProcedures(Get(results[i], "text", "")))]
     @@ results[i]]

\* what a retrieve call does: it returns a list or it raises
Returned(results) == [raised |-> FALSE, results |-> results]

\* retrieve, steps 2 to 5
hybrid_retrieve(store, f, vw, gw, vector_results, query, top_k, expand_entities) ==
  IF f.extractor THEN [raised |-> TRUE, results |-> <<>>]
  ELSE IF expand_entities
  THEN Returned(expand_with_graph_context(store, f,
         merge_results(vector_results,
                       graph_retrieve(store, f, ExtractProcedures(query), top_k),
                       top_k, vw, gw)))
  ELSE Returned(merge_results(vector_results,
                              graph_retrieve(store, f, ExtractProcedures(query), top_k),
                              top_k, vw, gw))

\* GraphEnhancedRetriever.retrieve
retrieve(store, hits, f, vw, gw, query, top_k, use_graph, expand_entities) ==
  IF ~use_graph
  THEN Returned(Prefix(vector_retrieve(hits, f, top_k * 2), top_k))
  ELSE hybrid_retrieve(store, f, vw, gw, vector_retrieve(hits, f, top_k * 2),
                       query, top_k, expand_entities)

\* the records the index returned, as they are when retrieve is over: its
\* writes (retrieval_source and vector_score in _vector_retrieve, final_score
\* in _merge_results, metadata in _expand_with_graph_context) are made on the
\* received dicts themselves
ReceivedAfter(hits, f, vw, use_graph, returned) ==
  IF f.vector THEN hits
  ELSE IF ~use_graph \/ f.extractor THEN vector_retrieve(hits, f, Len(hits))
  ELSE [i \in DOMAIN hits |->
          IF \E j \in DOMAIN returned : Get(returned[j], "id", "") = hits[i].id
          THEN returned[CHOOSE j \in DOMAIN returned : Get(returned[j], "id", "") = hits[i].id]
          ELSE Weighted(vector_retrieve(hits, f, Len(hits)), "vector_score", vw)[i]]

MaxRetrieveTopK == 2

\* 25 characters
TextUnit == "Dissect Calot triangle.  "

\* 100 characters
LongOpening == TextUnit \o TextUnit \o TextUnit \o TextUnit

\* the chunks of the vector index, by id: two uploads of one text (the second
\* in another case and indented) and two long chunks that differ behind the
\* first 100 characters
IndexedChunks ==
  [ c1 |-> "Clip the cystic duct",
    c2 |-> "  CLIP THE CYSTIC DUCT",
    c3 |-> LongOpening \o "Then clip the cystic artery.",
    c4 |-> LongOpening \o "Then clip the cystic duct." ]

\* the similarity of the hit at each rank
ScoreAtRank == << Rat(9, 10), Rat(7, 10), Rat(7, 10), Rat(1, 2) >>

\* the answers of the vector index to a search for n hits: different
\* chunks, best first
SearchResults(n) ==
  { [i \in DOMAIN ids |->
       [id |-> ids[i], text |-> IndexedChunks[ids[i]], score |-> ScoreAtRank[i]]] :
    ids \in { c \in UNION { [1..m -> DOMAIN IndexedChunks] : m \in 0..Min(n, Len(ScoreAtRank)) } :
               \A i \in DOMAIN c, j \in DOMAIN c : i # j => c[i] # c[j] } }

\* retrieve(query, top_k, use_graph, expand_entities): the index holds
\* `hits` for the query, the graph store is `store`, the calls fail as `f`
Retrieve ==
  /\ retrieval = None
  /\ \E query \in { "Steps of cholecystectomy", "Cholecystectomy or appendectomy?",
                     "What is asepsis?" },
        top_k \in 0..MaxRetrieveTopK, use_graph \in BOOLEAN, expand_entities \in BOOLEAN,
        store \in { PopulatedStore, [ contexts |-> EmptyDict, related |-> EmptyDict ] },
        f \in RetrievalFailures :
       \E hits \in SearchResults(top_k * 2) :
         retrieval' = [ query |-> query, top_k |-> top_k, use_graph |-> use_graph,
                        expand_entities |-> expand_entities, hits |-> hits,
                        received |->
                          ReceivedAfter(hits, f, vector_weight, use_graph,
                                        retrieve(store, hits, f, vector_weight, graph_weight,
                                                 query, top_k, use_graph,
                                                 expand_entities).results) ]
                      @@ retrieve(store, hits, f, vector_weight, graph_weight,
                                  query, top_k, use_graph, expand_entities)
  /\ UNCHANGED << vector_weight, graph_weight >>
  /\ UNCHANGED << pipeline_vars, classifier_vars, aggregator_vars, service_vars >>

\* the caller is done with the results
RetrieveReturn ==
  /\ retrieval # None
  /\ retrieval' = None
  /\ UNCHANGED << vector_weight, graph_weight >>
  /\ UNCHANGED << pipeline_vars, classifier_vars, aggregator_vars, service_vars >>

\* GraphEnhancedRetriever.__init__
RetrieveInit ==
  /\ \E w \in { << Rat(6, 10), Rat(4, 10) >>, << One, One >> } :
       /\ vector_weight = RatDiv(w[1], RatAdd(w[1], w[2]))
       /\ graph_weight = RatDiv(w[2], RatAdd(w[1], w[2]))
  /\ retrieval = None
  /\ PipelineIdle /\ ClassifierIdle /\ AggregatorIdle /\ ServiceIdle /\ DecomposerIdle

RetrieveNext == Retrieve \/ RetrieveReturn

RetrieveSpec == RetrieveInit /\ [][RetrieveNext]_vars

\* the weighted score of a returned entry
WeightedScore(result) ==
  Get(result, "final_score", RatMul(Get(result, "vector_score", Zero), vector_weight))

\* C5: the list retrieve returns is sorted non-increasing by weighted score,
\* has at most top_k entries, and holds no two entries with the same content
\* fingerprint (first 100 characters of the text, lower-cased and stripped)
C5_RetrieveSortedBoundedUnique ==
  (retrieval # None /\ ~retrieval.raised) =>
    /\ \A i \in DOMAIN retrieval.results, j \in DOMAIN retrieval.results :
         i < j => RatLe(WeightedScore(retrieval.results[j]), WeightedScore(retrieval.results[i]))
    /\ Len(retrieval.results) <= retrieval.top_k
    /\ \A i \in DOMAIN retrieval.results, j \in DOMAIN retrieval.results :
         i # j => Strip(Lower(Prefix(Get(retrieval.results[i], "text", ""), 100)))
                  # Strip(Lower(Prefix(Get(retrieval.results[j], "text", ""), 100)))

(***************************************************************************)
(* The /chat endpoint (app/main.py), the query decomposers and the         *)
(* confidence scorer: specification ServiceSpec.  Each request or call     *)
(* starts from the idle state and its outcome is handed back by            *)
(* ServiceReturn.                                                          *)
(***************************************************************************)
MaxVectors == 2

\* the score faiss reports for a slot without a vector (-3.4e38), a float
\* below the -1e30 cut-off of chat
Sentinel == [n |-> -1, d |-> 0]

\* FaissManager.query(q_emb, top_k) on an index of ntotal vectors: the hits,
\* best first, then one padding entry (label -1, no metadata) per missing hit
QueryResults(ntotal, top_k) ==
  { [i \in 1..top_k |->
       IF i <= ntotal
       THEN [score |-> scores[i], metadata |-> [text |-> "chunk " \o IntToStr(i)]]
       ELSE [score |-> Sentinel, metadata |-> EmptyDict]] :
    scores \in { sc \in [1..Min(ntotal, top_k) -> {Rat(9, 10), Rat(1, 2), Rat(-1, 10)}] :
                   \A i \in DOMAIN sc, j \in DOMAIN sc : i < j => RatLe(sc[j], sc[i]) } }

\* chat once the index is known to hold vectors.  get_graph_retriever
\* returns no retriever when the entity extractor is not loaded; otherwise
\* its constructor call raises (a fourth positional argument and the
\* vector_weight keyword both bind vector_weight) and chat falls back to
\* the vector-only path
ChatWithDocuments(use_graph, graph_enabled, extractor_loaded, queried, generated) ==
  [ answer |-> IF SelectSeq(queried, LAMBDA c : Get(c, "score", Zero) # Sentinel) = <<>>
               THEN "Could not find relevant information. Please try uploading more documents or rephrasing your question."
               ELSE generated,
    contexts |-> SelectSeq(queried, LAMBDA c : Get(c, "score", Zero) # Sentinel),
    graph_used |-> FALSE,
    invoked |-> (IF use_graph /\ graph_enabled /\ extractor_loaded
                 THEN {"GraphEnhancedRetriever"} ELSE {})
                \cup {"embed_texts", "faiss.query"}
                \cup (IF SelectSeq(queried, LAMBDA c : Get(c, "score", Zero) # Sentinel) = <<>>
                      THEN {} ELSE {"generate_answer"}) ]

\* mutant of chat: no check for an empty index
chat_WithoutEmptyCheck(ntotal, use_graph, graph_enabled, extractor_loaded, queried, generated) ==
  ChatWithDocuments(use_graph, graph_enabled, extractor_loaded, queried, generated)

\* chat(query, level, use_graph); the answers are given without their
\* leading warning sign.  `invoked` names the components the request called
chat(ntotal, use_graph, graph_enabled, extractor_loaded, queried, generated) ==
  IF ntotal = 0
  THEN [ answer |-> "No documents have been uploaded yet. Please upload a PDF document first to enable the chat feature.",
         contexts |-> <<>>,
         graph_used |-> FALSE,
         invoked |-> {} ]
  ELSE ChatWithDocuments(use_graph, graph_enabled, extractor_loaded, queried, generated)

\* POST /chat
Chat ==
  /\ ServiceIdle
  /\ \E ntotal \in 0..MaxVectors, use_graph \in BOOLEAN, graph_enabled \in BOOLEAN,
        extractor_loaded \in BOOLEAN :
       \E queried \in QueryResults(ntotal, 5) :
         chat_call' = [ ntotal |-> ntotal, use_graph |-> use_graph, queried |-> queried ]
                      @@ chat(ntotal, use_graph, graph_enabled, extractor_loaded,
                              queried, "generated answer")
  /\ UNCHANGED << client_configured, decomposition_cache, decomposed, batch, component_call >>
  /\ UNCHANGED << pipeline_vars, classifier_vars, retriever_vars, aggregator_vars >>

(***************************************************************************)
(* The two QueryDecomposer classes.  What json.loads makes of the service  *)
(* reply is a JSON value tagged with its Python type: a list              *)
(* [type |-> "list", items |-> sequence] or a dict [type |-> "dict",       *)
(* items |-> record]; sub-queries and the reasoning are strings.           *)
(***************************************************************************)
\* the replies of client.chat.completions.create followed by json.loads:
\* one of them raises, or the reply parses to `value`
Completions ==
  { [raised |-> TRUE] }
  \cup
  { [raised |-> FALSE, value |-> v] :
      v \in { [type |-> "list", items |-> <<>>],
              [type |-> "dict", items |-> [reasoning |-> "by aspect"]] }
            \cup
            { [type |-> "dict", items |-> [subqueries |-> sq]] :
                sq \in { [type |-> "list", items |-> <<>>],
                         [type |-> "list", items |-> << "  " >>],
                         [type |-> "list", items |-> << "steps?", " complications? " >>],
                         [type |-> "list", items |-> << "", "a?", "b?", "c?", "d?" >>],
                         [type |-> "list", items |-> << "a?", "b?", "c?", "d?", "e?" >>],
                         [type |-> "dict", items |-> [first |-> "steps?"]] } } }

\* the queries put to the decomposers
DecomposerQueries ==
  { "What is asepsis?", "What are the steps and complications of appendectomy?" }

\* [sq.strip() for sq in subqueries if sq.strip()]
StripNonBlank(subqueries) ==
  [ i \in DOMAIN SelectSeq(subqueries, LAMBDA sq : Strip(sq) # "") |->
      Strip(SelectSeq(subqueries, LAMBDA sq : Strip(sq) # "")[i]) ]

\* query_processing: len(query.split()) < 15 and ',' not in query and
\* ' and ' not in query.lower()
IsSimpleQuery(query) ==
  /\ Cardinality({ i \in 1..Len(query) :
                     /\ ~IsSpace(CharAt(query, i))
                     /\ (i = 1 \/ IsSpace(CharAt(query, i - 1))) }) < 15
  /\ ~Contains(query, ",")
  /\ ~Contains(Lower(query), " and ")

\* query_processing QueryDecomposer.decompose(query): every exception of the
\* try block (the call, json.loads, .get on a value that is no dict) is
\* caught and answered with [query]
decompose(client, query, completion) ==
  IF ~client \/ IsSimpleQuery(query) THEN << query >>
  ELSE IF completion.raised THEN << query >>
  ELSE IF completion.value.type # "dict" THEN << query >>
  ELSE IF \/ Get(completion.value.items, "subqueries", [type |-> "list", items |-> <<>>]).type # "list"
          \/ Get(completion.value.items, "subqueries", [type |-> "list", items |-> <<>>]).items = <<>>
  THEN << query >>
  ELSE IF StripNonBlank(Prefix(completion.value.items.subqueries.items, 4)) = <<>>
  THEN << query >>
  ELSE StripNonBlank(Prefix(completion.value.items.subqueries.items, 4))

\* query_decomposition _analyze_query_complexity, on the lower-cased query
ComplexityScore(query_lower, length) ==
  (IF Cardinality({ word \in {"what", "how", "why", "when", "which", "where"} :
                      Contains(query_lower, word) }) > 1 THEN 2 ELSE 0)
  + (IF \E conj \in {" and ", " or ", " also ", ", and", ", or"} : Contains(query_lower, conj)
     THEN 2 ELSE 0)
  + (IF \E comp \in {"differ", "compare", "versus", "vs", "difference between", "contrast"} :
          Contains(query_lower, comp)
     THEN 3 ELSE 0)
  + (IF Cardinality({ aspect \in {"step", "instrument", "complication", "indication",
                                   "contraindication", "technique"} :
                        Contains(query_lower, aspect) }) >= 2 THEN 2 ELSE 0)
  + (IF length > 100 THEN 1 ELSE 0)

\* _no_decomposition_result
no_decomposition_result(query) ==
  [ is_complex |-> FALSE, subqueries |-> << query >>, original_query |-> query,
    reasoning |-> "Query is sufficiently simple and focused", complexity_score |-> 0 ]

\* formatted_result of decompose_query for a reply that parsed to a dict whose
\* 'subqueries' (default [query]) is the list `subqueries`
formatted_result(query, max_subqueries, items, subqueries, complexity_score) ==
  [ is_complex |-> TRUE,
    subqueries |-> Prefix(subqueries, max_subqueries),
    original_query |-> query,
    reasoning |-> Get(items, "reasoning", "Query decomposed for comprehensive retrieval"),
    complexity_score |-> complexity_score ]

\* the try block of decompose_query: << plan, whether the plan is cached >>;
\* slicing a dict raises, like the call and json.loads
TryDecomposition(query, max_subqueries, completion, complexity_score) ==
  IF completion.raised THEN << no_decomposition_result(query), FALSE >>
  ELSE IF completion.value.type # "dict" THEN << no_decomposition_result(query), FALSE >>
  ELSE IF Get(completion.value.items, "subqueries", [type |-> "list", items |-> << query >>]).type # "list"
  THEN << no_decomposition_result(query), FALSE >>
  ELSE << formatted_result(query, max_subqueries, completion.value.items,
            Get(completion.value.items, "subqueries", [type |-> "list", items |-> << query >>]).items,
            complexity_score),
          TRUE >>

\* query_decomposition QueryDecomposer.decompose_query(query, max_subqueries):
\* << the plan returned, whether it is put into the cache >>
decompose_query(cache, client, query, max_subqueries, completion) ==
  IF query \in DOMAIN cache THEN << cache[query], FALSE >>
  ELSE IF ~client THEN << no_decomposition_result(query), FALSE >>
  ELSE IF ComplexityScore(Lower(query), Len(query)) < 3
  THEN << no_decomposition_result(query), TRUE >>
  ELSE TryDecomposition(query, max_subqueries, completion,
                        ComplexityScore(Lower(query), Len(query)))

\* MultiStepRetriever.retrieve of query_processing calls decompose and then
\* _single_retrieval for the queries of `retrieved_for`
Decompose ==
  /\ ServiceIdle
  /\ \E query \in DecomposerQueries, completion \in Completions :
       decomposed' =
         [ method |-> "decompose", query |-> query, completion |-> completion,
           called |-> client_configured /\ ~IsSimpleQuery(query),
           subqueries |-> decompose(client_configured, query, completion),
           retrieved_for |->
             IF Len(decompose(client_configured, query, completion)) = 1
             THEN << query >>
             ELSE decompose(client_configured, query, completion) ]
  /\ UNCHANGED << chat_call, client_configured, decomposition_cache, batch, component_call >>
  /\ UNCHANGED << pipeline_vars, classifier_vars, retriever_vars, aggregator_vars >>

\* the outcome of a decompose_query call that returned `plan`;
\* MultiStepRetriever.retrieve of query_decomposition then calls
\* _retrieve_single for the queries of `retrieved_for`
DecomposeQueryOutcome(query, max_subqueries, completion, called, plan) ==
  [ method |-> "decompose_query", query |-> query, max_subqueries |-> max_subqueries,
    completion |-> completion, called |-> called,
    subqueries |-> plan.subqueries, is_complex |-> plan.is_complex,
    retrieved_for |-> IF ~plan.is_complex THEN << query >> ELSE plan.subqueries ]

\* decompose_query(query, max_subqueries), directly or (max_subqueries = 4)
\* from MultiStepRetriever.retrieve
DecomposeQuery ==
  /\ ServiceIdle
  /\ \E query \in DecomposerQueries, max_subqueries \in {2, 4, 5}, completion \in Completions :
       /\ decomposed' =
            DecomposeQueryOutcome(query, max_subqueries, completion,
              /\ query \notin DOMAIN decomposition_cache
              /\ client_configured
              /\ ComplexityScore(Lower(query), Len(query)) >= 3,
              decompose_query(decomposition_cache, client_configured, query,
                              max_subqueries, completion)[1])
       /\ decomposition_cache' =
            IF decompose_query(decomposition_cache, client_configured, query,
                               max_subqueries, completion)[2]
            THEN (query :> decompose_query(decomposition_cache, client_configured, query,
                                           max_subqueries, completion)[1])
                 @@ decomposition_cache
            ELSE decomposition_cache
  /\ UNCHANGED << chat_call, client_configured, batch, component_call >>
  /\ UNCHANGED << pipeline_vars, classifier_vars, retriever_vars, aggregator_vars >>

\* QueryDecomposer.clear_cache
ClearCache ==
  /\ ServiceIdle
  /\ decomposition_cache # EmptyDict
  /\ decomposition_cache' = EmptyDict
  /\ UNCHANGED << chat_call, client_configured, decomposed, batch, component_call >>
  /\ UNCHANGED << pipeline_vars, classifier_vars, retriever_vars, aggregator_vars >>

(***************************************************************************)
(* GraphVerifier.verify_claims on a batch that holds one structurally      *)
(* invalid record.  _validate_claims keeps every list as it came, so the   *)
(* elements reach the verifier unchecked.  A JSON string in the place of a *)
(* claim is the record [python_str |-> text].                              *)
(***************************************************************************)
\* a value of the wrong shape, and a record without its required fields
InvalidRecords ==
  { [python_str |-> "forceps are used for retraction"],
    [procedure |-> "cholecystectomy"] }

\* claims.insert(pos - 1, x)
InsertAt(claims, pos, x) ==
  SubSeq(claims, 1, pos - 1) \o << x >> \o SubSeq(claims, pos, Len(claims))

\* verify_claims(claims): claim.get(...) at the head of each loop body is
\* outside the try block and raises AttributeError on a str
VerifyBatch(g, claims) ==
  IF \E key \in DOMAIN claims : \E i \in DOMAIN claims[key] : "python_str" \in DOMAIN claims[key][i]
  THEN [ raised |-> TRUE ]
  ELSE [ raised |-> FALSE, results |-> verify_claims(g, [fails |-> {}, msg |-> ""], claims) ]

\* graph_verifier.verify_claims(claims) for the claim set `valid` with the
\* record `invalid` put at position pos of one of its lists
VerifyClaims ==
  /\ ServiceIdle
  /\ \E valid \in ClaimSets, invalid \in InvalidRecords :
       \E key \in DOMAIN valid :
       \E pos \in 1..(Len(valid[key]) + 1) :
         batch' = [ valid |-> valid, invalid |-> invalid ]
                  @@ VerifyBatch(graph, [valid EXCEPT ![key] = InsertAt(@, pos, invalid)])
  /\ UNCHANGED << chat_call, client_configured, decomposition_cache, decomposed,
                  component_call >>
  /\ UNCHANGED << pipeline_vars, classifier_vars, retriever_vars, aggregator_vars >>

(***************************************************************************)
(* Weight normalisation in the constructors, and the source-agreement      *)
(* component of the ConfidenceScorer                                       *)
(***************************************************************************)
RECURSIVE SumRat(_)
\* sum(values)
SumRat(values) ==
  IF values = <<>> THEN Zero ELSE RatAdd(Head(values), SumRat(Tail(values)))

\* weight / total for each weight; the division raises ZeroDivisionError
\* when the weights sum to zero
NormalizedWeights(weights) ==
  IF SumRat(weights) = Zero THEN [ raised |-> TRUE, used |-> <<>> ]
  ELSE [ raised |-> FALSE,
         used |-> [i \in DOMAIN weights |-> RatDiv(weights[i], SumRat(weights))] ]

\* GraphEnhancedRetriever(faiss, neo4j, extractor, vector_weight, graph_weight)
ConstructRetriever ==
  /\ ServiceIdle
  /\ \E vw \in {Zero, Rat(4, 10), Rat(6, 10), One}, gw \in {Zero, Rat(4, 10), Rat(6, 10), One} :
       component_call' = [ method |-> "GraphEnhancedRetriever.__init__", weights |-> << vw, gw >> ]
                         @@ NormalizedWeights(<< vw, gw >>)
  /\ UNCHANGED << chat_call, client_configured, decomposition_cache, decomposed, batch >>
  /\ UNCHANGED << pipeline_vars, classifier_vars, retriever_vars, aggregator_vars >>

\* the values a ConfidenceScorer weight takes
ScorerWeights == {Zero, Rat(1, 5), Rat(1, 4), Rat(3, 10)}

\* ConfidenceScorer(retrieval_weight, graph_coverage_weight,
\*                  source_agreement_weight, verification_weight)
ConstructScorer ==
  /\ ServiceIdle
  /\ \E weights \in [1..4 -> ScorerWeights] :
       component_call' = [ method |-> "ConfidenceScorer.__init__", weights |-> weights ]
                         @@ NormalizedWeights(weights)
  /\ UNCHANGED << chat_call, client_configured, decomposition_cache, decomposed, batch >>
  /\ UNCHANGED << pipeline_vars, classifier_vars, retriever_vars, aggregator_vars >>

\* the most contexts handed to _compute_source_agreement
MaxContexts == 3

\* retrieved contexts: chunks of two documents, one chunk without a source,
\* one index padding entry, one entry without a score and one with a
\* negative inner product
ScoredContexts ==
  { [metadata |-> [source |-> "atlas.pdf"], score |-> Rat(9, 10)],
    [metadata |-> [source |-> "atlas.pdf"], score |-> Rat(1, 2)],
    [metadata |-> [source |-> "atlas.pdf"], score |-> Rat(3, 4)],
    [metadata |-> [source |-> "manual.pdf"], score |-> Rat(-1, 10)],
    [metadata |-> [source |-> "manual.pdf"], score |-> Rat(9, 10)],
    [metadata |-> EmptyDict, score |-> Rat(9, 10)],
    [metadata |-> [source |-> "atlas.pdf"], score |-> Sentinel],
    [metadata |-> [source |-> "atlas.pdf"]] }

\* c.get('metadata', {}).get('source', '')
SourceOf(c) == Get(Get(c, "metadata", EmptyDict), "source", "")

\* [c.get('score', 0.0) for c in contexts if c.get('score', 0.0) > -1e30]
ValidScores(contexts) ==
  LET kept == SelectSeq(contexts, LAMBDA c : Get(c, "score", Zero) # Sentinel)
  IN  [i \in DOMAIN kept |-> Get(kept[i], "score", Zero)]

\* np.var(scores): the mean of the squares less the square of the mean
Variance(scores) ==
  RatSub(RatDiv(SumRat([i \in DOMAIN scores |-> RatMul(scores[i], scores[i])]),
                Rat(Len(scores), 1)),
         RatMul(RatDiv(SumRat(scores), Rat(Len(scores), 1)),
                RatDiv(SumRat(scores), Rat(Len(scores), 1))))

\* consistency = 1.0 - min(score_variance * 10, 1.0), or 0.5 for fewer than
\* two valid scores
Consistency(scores) ==
  IF Len(scores) < 2 THEN Rat(1, 2)
  ELSE IF RatLt(One, RatMul(Variance(scores), Rat(10, 1))) THEN Zero
  ELSE RatSub(One, RatMul(Variance(scores), Rat(10, 1)))

\* ConfidenceScorer._compute_source_agreement; the clip to [0, 1] changes
\* nothing, both terms lie in [0, 0.6] and [0, 0.4]
compute_source_agreement(contexts) ==
  IF contexts = <<>> THEN Zero
  ELSE IF Len(contexts) = 1 THEN Rat(1, 2)
  ELSE RatAdd(RatMul(Rat(6, 10),
                     Rat(Cardinality({ SourceOf(contexts[i]) : i \in DOMAIN contexts } \ {""}),
                         Len(contexts))),
              RatMul(Rat(4, 10), Consistency(ValidScores(contexts))))

\* scorer._compute_source_agreement(contexts)
ComputeSourceAgreement ==
  /\ ServiceIdle
  /\ \E contexts \in UNION { [1..n -> ScoredContexts] : n \in 0..MaxContexts } :
       component_call' = [ method |-> "_compute_source_agreement", contexts |-> contexts,
                           agreement |-> compute_source_agreement(contexts) ]
  /\ UNCHANGED << chat_call, client_configured, decomposition_cache, decomposed, batch >>
  /\ UNCHANGED << pipeline_vars, classifier_vars, retriever_vars, aggregator_vars >>

\* mutant of compute_retrieval_similarity: a padding score is averaged in
\* as 0.0
compute_retrieval_similarity_SentinelAsZero(contexts) ==
  IF contexts = <<>> THEN Zero
  ELSE RatMax(Zero,
              RatDiv(SumRat(ValidScores(contexts)), Rat(Len(contexts), 1)))

\* ConfidenceScorer._compute_retrieval_similarity: np.clip(np.mean(valid), 0, 1)
compute_retrieval_similarity(contexts) ==
  IF ValidScores(contexts) = <<>> THEN Zero
  ELSE IF RatLt(One, RatDiv(SumRat(ValidScores(contexts)), Rat(Len(ValidScores(contexts)), 1)))
  THEN One
  ELSE RatMax(Zero,
              RatDiv(SumRat(ValidScores(contexts)), Rat(Len(ValidScores(contexts)), 1)))

\* scorer._compute_retrieval_similarity(contexts)
ComputeRetrievalSimilarity ==
  /\ ServiceIdle
  /\ \E contexts \in UNION { [1..n -> ScoredContexts] : n \in 0..MaxContexts } :
       component_call' = [ method |-> "_compute_retrieval_similarity", contexts |-> contexts,
                           similarity |-> compute_retrieval_similarity(contexts) ]
  /\ UNCHANGED << chat_call, client_configured, decomposition_cache, decomposed, batch >>
  /\ UNCHANGED << pipeline_vars, classifier_vars, retriever_vars, aggregator_vars >>

\* ConfidenceScorer(): the default weights, which sum to 1
DefaultScorerWeights == << Rat(3, 10), Rat(1, 4), Rat(1, 5), Rat(1, 4) >>

\* entity lists handed to compute_confidence: absent, or a list of names as
\* the extractor and the graph spell them
QueryEntityLists ==
  { None, [list |-> <<>>], [list |-> <<"Gallbladder">>],
    [list |-> <<"Gallbladder", "cystic duct">>] }

GraphEntityLists == { None, [list |-> <<"gallbladder">>] }

\* verification scores handed to compute_confidence: absent or in [0, 1]
VerificationScores == { None, Zero, Rat(1, 2), Rat(2, 3), One }

\* {e.lower() for e in entities}
LowerSet(entities) == { Lower(entities[i]) : i \in DOMAIN entities }

\* ConfidenceScorer._compute_graph_coverage
compute_graph_coverage(query_entities, graph_entities) ==
  IF query_entities = None \/ query_entities.list = <<>> THEN One
  ELSE IF graph_entities = None \/ graph_entities.list = <<>> THEN Zero
  ELSE Rat(Cardinality(LowerSet(query_entities.list) \cap LowerSet(graph_entities.list)),
           Cardinality(LowerSet(query_entities.list)))

\* ConfidenceScorer._get_confidence_level
get_confidence_level(overall_confidence) ==
  IF RatLe(Rat(8, 10), overall_confidence) THEN "high"
  ELSE IF RatLe(Rat(5, 10), overall_confidence) THEN "medium"
  ELSE "low"

\* ConfidenceScorer._generate_warning (the leading symbol of the text is
\* left out)
generate_warning(confidence_level, score) ==
  IF confidence_level = "high" THEN None
  ELSE IF confidence_level = "medium"
  THEN "Medium confidence (" \o FormatPercent(score) \o "). Based on available guidelines; verify with attending or senior resident before clinical application."
  ELSE "Low confidence (" \o FormatPercent(score) \o "). Insufficient evidence in knowledge base. Consult supervisor or primary sources before use."

\* round(x, 3) for x >= 0: the nearest multiple of 0.001; where the exact
\* value lies half way the binary float lies on either side of it
Round3(x) ==
  IF 2 * ((1000 * x.n) % x.d) < x.d THEN { Rat((1000 * x.n) \div x.d, 1000) }
  ELSE IF 2 * ((1000 * x.n) % x.d) > x.d THEN { Rat(((1000 * x.n) \div x.d) + 1, 1000) }
  ELSE { Rat((1000 * x.n) \div x.d, 1000), Rat(((1000 * x.n) \div x.d) + 1, 1000) }

\* verification_score if verification_score is not None else 1.0
VerificationComponent(verification_score) ==
  IF verification_score = None THEN One ELSE verification_score

\* the weighted sum of the four components
WeightedConfidence(w, contexts, query_entities, graph_entities, verification_score) ==
  RatAdd(RatAdd(RatMul(w[1], compute_retrieval_similarity(contexts)),
                RatMul(w[2], compute_graph_coverage(query_entities, graph_entities))),
         RatAdd(RatMul(w[3], compute_source_agreement(contexts)),
                RatMul(w[4], VerificationComponent(verification_score))))

\* ConfidenceScorer.compute_confidence: the report, given the rounded values
ConfidenceResult(w, overall, rounded, retrieval_sim, coverage, agreement, verification) ==
  [ overall_confidence |-> rounded,
    confidence_level |-> get_confidence_level(overall),
    retrieval_similarity |-> retrieval_sim,
    graph_coverage |-> coverage,
    source_agreement |-> agreement,
    verification_score |-> verification,
    components |-> [ retrieval |-> [score |-> retrieval_sim, weight |-> w[1]],
                     graph_coverage |-> [score |-> coverage, weight |-> w[2]],
                     source_agreement |-> [score |-> agreement, weight |-> w[3]],
                     verification |-> [score |-> verification, weight |-> w[4]] ] ]
  @@ (IF get_confidence_level(overall) = "high" THEN EmptyDict
      ELSE [ warning_message |-> generate_warning(get_confidence_level(overall), overall) ])

\* scorer.compute_confidence(contexts, query_entities, graph_entities,
\*                           verification_score) on a scorer with the default weights
ComputeConfidence ==
  /\ ServiceIdle
  /\ \E contexts \in UNION { [1..n -> ScoredContexts] : n \in 0..MaxContexts },
        query_entities \in QueryEntityLists, graph_entities \in GraphEntityLists,
        verification_score \in VerificationScores :
       \E rounded \in Round3(WeightedConfidence(DefaultScorerWeights, contexts, query_entities,
                                                 graph_entities, verification_score)),
          retrieval_sim \in Round3(compute_retrieval_similarity(contexts)),
          coverage \in Round3(compute_graph_coverage(query_entities, graph_entities)),
          agreement \in Round3(compute_source_agreement(contexts)),
          verification \in Round3(VerificationComponent(verification_score)) :
         component_call' =
           [ method |-> "compute_confidence", contexts |-> contexts,
             query_entities |-> query_entities, graph_entities |-> graph_entities,
             verification_score |-> verification_score,
             result |-> ConfidenceResult(DefaultScorerWeights,
                          WeightedConfidence(DefaultScorerWeights, contexts, query_entities,
                                             graph_entities, verification_score),
                          rounded, retrieval_sim, coverage, agreement, verification) ]
  /\ UNCHANGED << chat_call, client_configured, decomposition_cache, decomposed, batch >>
  /\ UNCHANGED << pipeline_vars, classifier_vars, retriever_vars, aggregator_vars >>

\* the caller is done with the outcome
ServiceReturn ==
  /\ ~ServiceIdle
  /\ chat_call' = None
  /\ decomposed' = None
  /\ batch' = None
  /\ component_call' = None
  /\ UNCHANGED << client_configured, decomposition_cache >>
  /\ UNCHANGED << pipeline_vars, classifier_vars, retriever_vars, aggregator_vars >>

(***************************************************************************)
(* The two MultiStepRetriever classes, each with its QueryDecomposer.      *)
(***************************************************************************)
\* what the base retriever returns for one sub-query: a chunk of the index
\* with a high or a low similarity, another chunk, the graph-derived item
BoostItems ==
  { [ id |-> "a", text |-> "Chunk a", score |-> s,
      retrieval_source |-> "vector", vector_score |-> s,
      final_score |-> RatMul(s, Rat(6, 10)) ] : s \in {Rat(1, 2), Rat(-1, 2)} }
  \cup GraphItems

\* result.get('text', '')[:500]
DedupText(result) == Prefix(Get(result, "text", ""), 500)

\* query_decomposition retrieve: result['subquery_index'] = i;
\* result['subquery'] = subquery
TagWithIndex(results, i) ==
  [j \in DOMAIN results |->
     [subquery_index |-> i, subquery |-> "sub-query " \o IntToStr(i)] @@ results[j]]

RECURSIVE AllTagged(_, _)
\* query_decomposition retrieve: all_results after the first n sub-queries
AllTagged(results_per_subquery, n) ==
  IF n = 0 THEN <<>>
  ELSE AllTagged(results_per_subquery, n - 1) \o TagWithIndex(results_per_subquery[n], n - 1)

\* existing['subquery_count'] when the loop is over: how often the text of
\* results[i] occurs in all_results
SubqueryCount(results, i) ==
  Cardinality({j \in DOMAIN results : DedupText(results[j]) = DedupText(results[i])})

\* mutant of SubqueryBoost: no cap
SubqueryBoost_Uncapped(subquery_count) == Rat(subquery_count, 10)

\* min(0.3, result.get('subquery_count', 1) * 0.1)
SubqueryBoost(subquery_count) ==
  IF subquery_count > 3 THEN Rat(3, 10) ELSE Rat(subquery_count, 10)

\* the entry of unique_results for the text first seen at position i
AggregatedEntry(results, i) ==
  [ subquery_count |-> SubqueryCount(results, i),
    final_score |-> RatAdd(Get(results[i], "score", Rat(1, 2)),
                           SubqueryBoost(SubqueryCount(results, i))) ]
  @@ results[i]

RECURSIVE UniqueFrom(_, _)
\* unique_results for the texts first seen at position i or later; a result
\* without text is never kept
UniqueFrom(results, i) ==
  IF i > Len(results) THEN <<>>
  ELSE (IF /\ DedupText(results[i]) # ""
           /\ \A j \in 1..(i - 1) : DedupText(results[j]) # DedupText(results[i])
        THEN << AggregatedEntry(results, i) >> ELSE <<>>)
       \o UniqueFrom(results, i + 1)

\* query_decomposition MultiStepRetriever._aggregate_results
aggregate_results(all_results, top_k) ==
  Prefix(SortedDescending(UniqueFrom(all_results, 1), "final_score"), top_k)

\* what the retriever does when _single_retrieval calls it: it raises, or
\* it returns a list of results
RetrieverOutcomes(pool) ==
  { [raised |-> TRUE] } \cup { [raised |-> FALSE, results |-> rs] : rs \in ResultLists(pool) }

\* mutant of single_retrieval: no try/except around the retriever call
single_retrieval_Uncaught(outcome) == outcome

\* query_processing MultiStepRetriever._single_retrieval: an exception of
\* the retriever is logged and answered with []
single_retrieval(outcome) ==
  IF outcome.raised THEN [raised |-> FALSE, results |-> <<>>] ELSE outcome

\* the first _single_retrieval call that raises, 0 when none does
FirstRaised(outcomes) ==
  IF \E i \in DOMAIN outcomes : single_retrieval(outcomes[i]).raised
  THEN CHOOSE i \in DOMAIN outcomes :
         /\ single_retrieval(outcomes[i]).raised
         /\ \A j \in 1..(i - 1) : ~single_retrieval(outcomes[j]).raised
  ELSE 0

\* what the _single_retrieval calls returned
ReturnedLists(outcomes) ==
  [i \in DOMAIN outcomes |->
     IF single_retrieval(outcomes[i]).raised THEN <<>> ELSE single_retrieval(outcomes[i]).results]

\* the queries _single_retrieval is called for: the query itself when there
\* is one sub-query, else the sub-queries in order, up to a call that raises
AttemptedQueries(query, subqueries, outcomes) ==
  IF Len(subqueries) = 1 THEN << query >>
  ELSE IF FirstRaised(outcomes) = 0 THEN subqueries
  ELSE Prefix(subqueries, FirstRaised(outcomes))

\* query_processing MultiStepRetriever.retrieve(query, top_k) with
\* use_decomposition: decomposer.decompose(query), then _single_retrieval
\* for each sub-query and _deduplicate_and_merge
RetrieveDecomposed ==
  /\ merged_results = <<>>
  /\ decomposed = None
  /\ \E query \in DecomposerQueries, completion \in Completions, k \in {1, MaxTopK} :
       \E outcomes \in [1..Len(decompose(client_configured, query, completion))
                          -> RetrieverOutcomes(BoostItems)] :
         /\ (Len(outcomes) = 1 /\ ~outcomes[1].raised) => Len(outcomes[1].results) <= k
         /\ decomposed' = [ method |-> "decompose", query |-> query, completion |-> completion,
                            subqueries |-> decompose(client_configured, query, completion),
                            aggregated |-> Len(outcomes) > 1,
                            failed |-> { i \in DOMAIN outcomes : outcomes[i].raised },
                            attempted |-> AttemptedQueries(query,
                                            decompose(client_configured, query, completion),
                                            outcomes),
                            raised |-> FirstRaised(outcomes) # 0 ]
         /\ subquery_results' = ReturnedLists(outcomes)
         /\ requested_top_k' = k
         /\ merged_results' = << IF FirstRaised(outcomes) # 0 THEN <<>>
                                 ELSE multi_step_retrieve(ReturnedLists(outcomes), k) >>
  /\ UNCHANGED << chat_call, client_configured, decomposition_cache, batch, component_call >>
  /\ UNCHANGED << pipeline_vars, classifier_vars, retriever_vars >>

\* the base retriever's results in the additive retriever: hybrid results
\* with a text, or FaissManager.query results, whose text is in the metadata
AggregatedPools ==
  { { r \in BoostItems : Get(r, "score", Rat(1, 2)) = Rat(1, 2) }, FaissItems }

\* the service replies during an additive retrieval: the call raises, or
\* the reply lists two or five sub-queries
PlanCompletions ==
  { c \in Completions :
      \/ c.raised
      \/ /\ c.value.type = "dict"
         /\ Has(c.value.items, "subqueries")
         /\ c.value.items.subqueries.type = "list"
         /\ Len(c.value.items.subqueries.items) \in {2, 5}
         /\ c.value.items.subqueries.items[1] # "" }

\* the queries _retrieve_single is called for under a plan
PlannedQueries(query, plan) ==
  IF plan.is_complex THEN plan.subqueries ELSE << query >>

\* query_decomposition MultiStepRetriever.retrieve(query, top_k) with
\* use_decomposition: decomposer.decompose_query(query), then
\* _retrieve_single(query, top_k) for a plan that is not complex, else
\* _retrieve_single for each sub-query and _aggregate_results
RetrieveAggregated ==
  /\ merged_results = <<>>
  /\ decomposed = None
  /\ \E query \in DecomposerQueries, completion \in PlanCompletions, k \in {1, MaxTopK},
        pool \in AggregatedPools :
       \E rs \in [1..Len(PlannedQueries(query,
                           decompose_query(decomposition_cache, client_configured, query,
                                           4, completion)[1]))
                    -> ResultLists(pool)] :
         /\ \A i \in DOMAIN rs : Len(rs[i]) <= 2 * k
         /\ Len(rs) = 1 => Len(rs[1]) <= k
         /\ decomposed' =
              [ method |-> "decompose_query", query |-> query, completion |-> completion,
                subqueries |-> decompose_query(decomposition_cache, client_configured, query,
                                               4, completion)[1].subqueries,
                aggregated |-> decompose_query(decomposition_cache, client_configured, query,
                                               4, completion)[1].is_complex ]
         /\ decomposition_cache' =
              IF decompose_query(decomposition_cache, client_configured, query, 4, completion)[2]
              THEN (query :> decompose_query(decomposition_cache, client_configured, query,
                                             4, completion)[1])
                   @@ decomposition_cache
              ELSE decomposition_cache
         /\ subquery_results' = rs
         /\ requested_top_k' = k
         /\ merged_results' =
              << IF decompose_query(decomposition_cache, client_configured, query,
                                    4, completion)[1].is_complex
                 THEN aggregate_results(AllTagged(rs, Len(rs)), k)
                 ELSE rs[1] >>
  /\ UNCHANGED << chat_call, client_configured, batch, component_call >>
  /\ UNCHANGED << pipeline_vars, classifier_vars, retriever_vars >>

\* the caller is done with the retrieved results
DecomposedReturn ==
  /\ merged_results # <<>>
  /\ decomposed # None
  /\ subquery_results' = <<>>
  /\ requested_top_k' = 0
  /\ merged_results' = <<>>
  /\ decomposed' = None
  /\ UNCHANGED << chat_call, client_configured, decomposition_cache, batch, component_call >>
  /\ UNCHANGED << pipeline_vars, classifier_vars, retriever_vars >>

BoostNext == RetrieveDecomposed \/ RetrieveAggregated \/ DecomposedReturn

BoostSpec == MergeInit /\ [][BoostNext]_vars

ServiceInit ==
  /\ PipelineIdle /\ ClassifierIdle /\ RetrieverIdle /\ AggregatorIdle /\ ServiceIdle
  /\ client_configured \in BOOLEAN
  /\ decomposition_cache = EmptyDict

ServiceNext == Chat \/ Decompose \/ DecomposeQuery \/ ClearCache \/ ServiceReturn

ServiceSpec == ServiceInit /\ [][ServiceNext]_vars

\* the verifier on a populated graph, the constructors and the scorer, each
\* called on its own
ComponentInit ==
  /\ graph = PopulatedGraph
  /\ abstention_threshold = Rat(5, 10)
  /\ enable_abstention = TRUE
  /\ uncertainty_log = <<>>
  /\ report = None
  /\ message = <<>>
  /\ policy_in = None
  /\ policy_out = <<>>
  /\ extraction = None
  /\ driver = None
  /\ ClassifierIdle /\ RetrieverIdle /\ AggregatorIdle /\ ServiceIdle /\ DecomposerIdle

ComponentNext ==
  \/ VerifyClaims \/ ConstructRetriever \/ ConstructScorer \/ ComputeSourceAgreement
  \/ ComputeRetrievalSimilarity \/ ComputeConfidence \/ Chat \/ ServiceReturn

ComponentSpec == ComponentInit /\ [][ComponentNext]_vars

\* C11: on an empty index chat returns the fixed "no documents" answer with
\* no contexts and graph_used = false, and calls neither retrieval nor
\* answer generation nor verification nor the abstention policy
C11_EmptyIndexFixedAnswer ==
  (chat_call # None /\ chat_call.ntotal = 0) =>
    /\ chat_call.answer = "No documents have been uploaded yet. Please upload a PDF document first to enable the chat feature."
    /\ chat_call.contexts = <<>>
    /\ chat_call.graph_used = FALSE
    /\ chat_call.invoked = {}

\* a request with use_graph set was answered on an empty index
C11_Witness ==
  /\ chat_call # None
  /\ chat_call.ntotal = 0
  /\ chat_call.use_graph
  /\ chat_call.invoked = {}

\* the reply cannot be used: the call or json.loads raised, the reply is no
\* dict, or its 'subqueries' is missing, no list, empty or all blank
Unusable(completion) ==
  \/ completion.raised
  \/ completion.value.type # "dict"
  \/ "subqueries" \notin DOMAIN completion.value.items
  \/ completion.value.items.subqueries.type # "list"
  \/ StripNonBlank(completion.value.items.subqueries.items) = <<>>

\* C12: when the service was called and its reply cannot be used, the plan is
\* the single original query, is_complex is false where it is reported, and
\* the retrieval is made for the original query
C12_FallbackToOriginalQuery ==
  (decomposed # None /\ decomposed.called /\ Unusable(decomposed.completion)) =>
    /\ decomposed.subqueries = << decomposed.query >>
    /\ Get(decomposed, "is_complex", FALSE) = FALSE
    /\ decomposed.retrieved_for = << decomposed.query >>

\* C13: every plan holds between 1 and 4 sub-queries, and decompose_query
\* returns no more than max_subqueries of them
C13_SubqueriesBounded ==
  decomposed # None =>
    /\ Len(decomposed.subqueries) >= 1
    /\ Len(decomposed.subqueries) <= 4
    /\ decomposed.method = "decompose_query"
         => Len(decomposed.subqueries) <= decomposed.max_subqueries

\* C14: whichever external call fails, retrieve returns a list and passes no
\* exception on to its caller
C14_RetrieveNeverRaises ==
  retrieval # None => ~retrieval.raised

\* C15: a batch with a structurally invalid record is verified without an
\* exception, and the records next to the invalid one are verified or
\* unverified as they are without it
C15_InvalidRecordSkipped ==
  batch # None =>
    /\ ~batch.raised
    /\ batch.results.verified_claims
         = verify_claims(graph, [fails |-> {}, msg |-> ""], batch.valid).verified_claims
    /\ SelectSeq(batch.results.unverified_details, LAMBDA d : d.claim # batch.invalid)
         = verify_claims(graph, [fails |-> {}, msg |-> ""], batch.valid).unverified_details

\* C16: when the extractor has no client, the service call raises or its
\* content is not JSON, verify_answer works on the empty claim set and
\* reports no claims, a verification score of 1.0 and, with abstention
\* enabled, the decision to abstain
C16_FailedExtractionAbstains ==
  (report # None /\ extraction # None
     /\ (~extraction.client \/ extraction.reply.raised \/ extraction.reply.parsed = <<>>)) =>
    /\ report.extracted_claims = empty_claims
    /\ report.total_claims = 0
    /\ report.verification_score = One
    /\ enable_abstention => report.abstention_decision.should_abstain

C16_Witness ==
  /\ report # None /\ extraction # None
  /\ extraction.client /\ extraction.reply.raised
  /\ enable_abstention
  /\ report.total_claims = 0
  /\ report.abstention_decision.should_abstain

\* C17: no call changes the state the instances hold: the uncertainty log
\* of the pipeline's UncertaintyQuantifier and the decomposition cache of
\* the QueryDecomposer are after every step what they were before it
C17_NoStateAcrossQueries ==
  [][uncertainty_log' = uncertainty_log /\ decomposition_cache' = decomposition_cache]_vars

\* C18: the records the hybrid retriever received from the vector index
\* are, when retrieve is over, what they were when the index returned them
C18_ReceivedRecordsUnchanged ==
  retrieval # None => retrieval.received = retrieval.hits

\* C19: for every pair of weights given to the GraphEnhancedRetriever
\* constructor and every four weights given to the ConfidenceScorer
\* constructor, construction completes and the weights used sum to 1
C19_WeightsSumToOne ==
  (component_call # None
     /\ component_call.method \in {"GraphEnhancedRetriever.__init__", "ConfidenceScorer.__init__"}) =>
    /\ ~component_call.raised
    /\ SumRat(component_call.used) = One

\* C20: when the contexts, one or more, all come from one source, the
\* source-agreement component is 0.5
C20_SingleSourceAgreementIsHalf ==
  (component_call # None /\ component_call.method = "_compute_source_agreement"
     /\ component_call.contexts # <<>>
     /\ \E source \in {"atlas.pdf", "manual.pdf"} :
          \A i \in DOMAIN component_call.contexts :
            SourceOf(component_call.contexts[i]) = source) =>
    component_call.agreement = Rat(1, 2)

\* the report r lists `claim` of category `type` as verified: no unverified
\* detail names it
ReportedVerified(r, type, claim) ==
  \A i \in DOMAIN r.unverified_details :
    ~(r.unverified_details[i].type = type /\ r.unverified_details[i].claim = claim)

\* C23: an instrument claim naming a step and an instrument is reported
\* verified exactly when the graph holds a USES relation from a step whose
\* name contains the claimed step to an instrument whose name contains the
\* claimed instrument (the USES query answering)
C23_InstrumentVerifiedIffUses ==
  report # None =>
    \A i \in DOMAIN report.extracted_claims.instrument_claims :
      LET c == report.extracted_claims.instrument_claims[i]
      IN  (c.step # "" /\ c.instrument # "" /\ "uses" \notin driver.fails) =>
            (ReportedVerified(report, "instrument", c)
               <=> \E e \in graph.uses :
                     /\ Contains(Lower(e[1]), Lower(c.step))
                     /\ Contains(Lower(e[2]), Lower(c.instrument)))

\* some Anatomy node's name contains the structure name, case-insensitively
AnatomyNodeExists(g, structure) ==
  \E a \in g.anatomy : Contains(Lower(a), Lower(structure))

\* C24: an anatomy claim naming a structure is reported verified only when
\* an Anatomy node's name contains the structure name, and unverified only
\* when no such node exists or a graph query of the anatomy check fails;
\* the claimed procedure and relation play no part
C24_AnatomyVerifiedIffNodeExists ==
  report # None =>
    \A i \in DOMAIN report.extracted_claims.anatomy_claims :
      LET c == report.extracted_claims.anatomy_claims[i]
      IN  c.anatomical_structure # "" =>
            /\ ReportedVerified(report, "anatomy", c) => AnatomyNodeExists(graph, c.anatomical_structure)
            /\ ~ReportedVerified(report, "anatomy", c) =>
                 \/ ~AnatomyNodeExists(graph, c.anatomical_structure)
                 \/ driver.fails \cap {"anatomy_rel", "node_exists"} # {}

\* C24 witness: the graph holds the liver in no relation, the queries answer,
\* and the claim that the procedure avoids the liver is reported verified
C24_Witness ==
  /\ report # None
  /\ driver.fails = {}
  /\ \E i \in DOMAIN report.extracted_claims.anatomy_claims :
       LET c == report.extracted_claims.anatomy_claims[i]
       IN  /\ c.anatomical_structure = "liver"
           /\ c.relationship = "AVOIDS"
           /\ \A e \in graph.anatomy_rel : ~Contains(Lower(e[3]), "liver")
           /\ AnatomyNodeExists(graph, "liver")
           /\ ReportedVerified(report, "anatomy", c)

\* C28: with abstention enabled, a report whose hallucination analysis
\* counts a critical classification abstains, whatever the verification score
C28_CriticalCountAbstains ==
  (enable_abstention /\ report # None /\ report.hallucination_analysis.critical_count > 0) =>
    report.abstention_decision.should_abstain

\* C29: a report with critical classifications carries the CRITICAL warning
\* with their count; one with high but no critical classifications carries
\* the high-severity warning
C29_SeverityWarningPresent ==
  report # None =>
    /\ report.hallucination_analysis.severity_distribution["critical"] > 0 =>
         /\ "warning_message" \in DOMAIN report
         /\ Contains(report.warning_message,
                     "CRITICAL: "
                     \o IntToStr(report.hallucination_analysis.severity_distribution["critical"])
                     \o " critical hallucination(s) detected")
    /\ (/\ report.hallucination_analysis.severity_distribution["critical"] = 0
        /\ report.hallucination_analysis.severity_distribution["high"] > 0) =>
         /\ "warning_message" \in DOMAIN report
         /\ Contains(report.warning_message, "high-severity hallucination(s) detected")

\* C30: the report counts every claim once: total_claims is the number of
\* claim records, verified and unverified add up to it, there is one
\* unverified detail and one classification per unverified claim, and the
\* four severity counts add up to the number of hallucinations
C30_EveryClaimAccounted ==
  report # None =>
    /\ report.total_claims = count_total_claims(report.extracted_claims)
    /\ report.verified_claims + report.unverified_claims = report.total_claims
    /\ Len(report.unverified_details) = report.unverified_claims
    /\ report.hallucination_analysis.total_hallucinations = report.unverified_claims
    /\ Len(report.hallucination_analysis.classifications) = report.unverified_claims
    /\ report.hallucination_analysis.severity_distribution["critical"]
         + report.hallucination_analysis.severity_distribution["high"]
         + report.hallucination_analysis.severity_distribution["medium"]
         + report.hallucination_analysis.severity_distribution["low"]
         = report.unverified_claims
    /\ \A i \in DOMAIN report.hallucination_analysis.classifications :
         /\ report.hallucination_analysis.classifications[i].severity
              \in {"critical", "high", "medium", "low"}
         /\ report.hallucination_analysis.classifications[i].hallucination_type \in DOMAIN Taxonomy
         /\ report.hallucination_analysis.classifications[i].unverified_claim
              = report.unverified_details[i]

\* C30 witness: a claim without a step name and a claim whose query raised,
\* both unverified and both classified
C30_Witness ==
  /\ report # None
  /\ driver.fails # {}
  /\ report.total_claims = 2
  /\ report.unverified_claims = 2
  /\ \E i \in DOMAIN report.unverified_details :
       report.unverified_details[i].reason = "Missing step or instrument name"
  /\ \E i \in DOMAIN report.unverified_details :
       report.unverified_details[i].reason = "Query error: connection refused"
  /\ report.hallucination_analysis.total_hallucinations = 2

\* the contexts whose score is above the invalid floor
AboveFloor(contexts) ==
  SelectSeq(contexts, LAMBDA c : Get(c, "score", Zero) # Sentinel)

\* the mean of the scores of the contexts, clipped to [0, 1]
ClippedMean(contexts) ==
  LET total == SumRat([i \in DOMAIN contexts |-> Get(contexts[i], "score", Zero)])
  IN  IF total.n < 0 THEN Zero
      ELSE IF total.n > Len(contexts) * total.d THEN One
      ELSE Rat(total.n, total.d * Len(contexts))

\* C21: the retrieval-similarity component is the clipped mean of the scores
\* above the floor, 0.0 when there is none, and is the same without the
\* padding entries; chat hands on only the contexts above the floor and
\* answers 'Could not find relevant information' when none is left
C21_SentinelScoresIgnored ==
  /\ (component_call # None /\ component_call.method = "_compute_retrieval_similarity") =>
       /\ component_call.similarity
            = IF AboveFloor(component_call.contexts) = <<>> THEN Zero
              ELSE ClippedMean(AboveFloor(component_call.contexts))
       /\ component_call.similarity
            = compute_retrieval_similarity(AboveFloor(component_call.contexts))
  /\ (chat_call # None /\ chat_call.ntotal > 0) =>
       /\ chat_call.contexts = AboveFloor(chat_call.queried)
       /\ chat_call.contexts = <<>> <=>
            chat_call.answer = "Could not find relevant information. Please try uploading more documents or rephrasing your question."
       /\ chat_call.contexts = <<>> <=> "generate_answer" \notin chat_call.invoked

\* C21 witness: two valid scores and a padding entry give the mean of the two
C21_Witness ==
  /\ component_call # None
  /\ component_call.method = "_compute_retrieval_similarity"
  /\ Len(component_call.contexts) = 3
  /\ Len(AboveFloor(component_call.contexts)) = 2
  /\ component_call.similarity = Rat(7, 10)

\* C22: the reported overall_confidence lies in [0, 1] and the reported
\* confidence_level is 'high' iff it is at least 0.80, 'medium' iff it is at
\* least 0.50 and below 0.80, and 'low' otherwise
C22_LevelAgreesWithReported ==
  (component_call # None /\ component_call.method = "compute_confidence") =>
    /\ RatLe(Zero, component_call.result.overall_confidence)
    /\ RatLe(component_call.result.overall_confidence, One)
    /\ component_call.result.confidence_level = "high"
         <=> RatLe(Rat(8, 10), component_call.result.overall_confidence)
    /\ component_call.result.confidence_level = "medium"
         <=> /\ RatLe(Rat(5, 10), component_call.result.overall_confidence)
             /\ RatLt(component_call.result.overall_confidence, Rat(8, 10))
    /\ component_call.result.confidence_level \in {"high", "medium", "low"}

\* C25: whatever the sub-queries return, the aggregator output holds one
\* entry per content, vector and graph-derived items alike, and the hit
\* count of the entry is the number of distinct sub-queries that returned
\* the content and the size of its retrieving-sub-query index set
C25_OneEntryPerContent ==
  Aggregated =>
    /\ \A p \in DOMAIN merged_results[1], q \in DOMAIN merged_results[1] :
         ItemOf(merged_results[1][p]) = ItemOf(merged_results[1][q]) => p = q
    /\ \A p \in DOMAIN merged_results[1] :
         /\ merged_results[1][p].num_subqueries
              = Cardinality(RetrievingSubqueries(merged_results[1][p]))
         /\ merged_results[1][p].num_subqueries
              = Cardinality(merged_results[1][p].retrieved_by_subqueries)

\* the raw scores, as _aggregate_results reads them, that the text of the
\* entry was returned with
RawScoresOfText(entry) ==
  {Get(subquery_results[i][j], "score", Rat(1, 2)) :
     <<i, j>> \in {p \in (DOMAIN subquery_results) \X (1..MaxPerSubquery) :
                    /\ p[2] \in DOMAIN subquery_results[p[1]]
                    /\ DedupText(subquery_results[p[1]][p[2]]) = DedupText(entry)}}

\* C27: with a QueryDecomposer the boost has a fixed cap: the final score of
\* an output entry is at most 1.3 times its maximum raw score in the
\* multiplicative aggregator and at most its maximum raw score plus 0.3 in
\* the additive one, however often the item was returned
C27_BoostCapped ==
  (decomposed # None /\ merged_results # <<>> /\ decomposed.aggregated) =>
    \A p \in DOMAIN merged_results[1] :
      /\ decomposed.method = "decompose" =>
           RatLe(merged_results[1][p].score,
                 RatMax(MaxScore(RawScoresOf(merged_results[1][p])),
                        RatMul(MaxScore(RawScoresOf(merged_results[1][p])), Rat(13, 10))))
      /\ decomposed.method = "decompose_query" =>
           RatLe(merged_results[1][p].final_score,
                 RatAdd(MaxScore(RawScoresOfText(merged_results[1][p])), Rat(3, 10)))

\* C27 witness: an item returned by all four sub-queries of the decomposer
\* has 1.3 times its raw score
C27_Witness ==
  /\ decomposed # None /\ merged_results # <<>>
  /\ decomposed.method = "decompose"
  /\ Len(subquery_results) = 4
  /\ \E p \in DOMAIN merged_results[1] :
       /\ merged_results[1][p].num_subqueries = 4
       /\ merged_results[1][p].score = Rat(13, 20)

\* an item returned four times in the additive aggregator has its raw score
\* plus 0.3
C27_WitnessAdditive ==
  /\ decomposed # None /\ merged_results # <<>>
  /\ decomposed.method = "decompose_query" /\ decomposed.aggregated
  /\ \E p \in DOMAIN merged_results[1] :
       /\ merged_results[1][p].subquery_count = 4
       /\ merged_results[1][p].final_score = Rat(8, 10)

\* the results of the sub-queries whose retrieval succeeded, each tagged
\* with the position of its sub-query
SucceededResults ==
  AllResults([i \in DOMAIN subquery_results |->
                IF i \in decomposed.failed THEN <<>> ELSE subquery_results[i]],
             Len(subquery_results))

\* C26: for a complex query, when the retriever raises for some sub-queries
\* retrieve still returns, every sub-query is attempted exactly once, and
\* the result is the merged and ranked results of the sub-queries that
\* succeeded
C26_FailedSubqueryRecovered ==
  (decomposed # None /\ decomposed.method = "decompose" /\ Len(decomposed.subqueries) >= 2) =>
    /\ ~decomposed.raised
    /\ decomposed.attempted = decomposed.subqueries
    /\ merged_results[1] = deduplicate_and_merge(SucceededResults, requested_top_k)
    /\ \A p \in DOMAIN merged_results[1] :
         /\ merged_results[1][p].retrieved_by_subqueries
              \subseteq { i - 1 : i \in (DOMAIN subquery_results) \ decomposed.failed }
         /\ \A q \in DOMAIN merged_results[1] :
              p < q => RatLe(merged_results[1][q].score, merged_results[1][p].score)
    /\ (\A i \in decomposed.failed : subquery_results[i] = <<>>)

\* C26 witness: of three sub-queries the retrieval of the second raises, and
\* the output holds an item the first and the third returned
C26_Witness ==
  /\ decomposed # None /\ decomposed.method = "decompose"
  /\ Len(decomposed.subqueries) = 3
  /\ decomposed.failed = {2}
  /\ ~decomposed.raised
  /\ \E p \in DOMAIN merged_results[1] :
       merged_results[1][p].retrieved_by_subqueries = {0, 2}

=============================================================================
